---- MODULE Spec2Model ----
(***************************************************************************)
(* The autonomous coding agent of agents/enhanced_coding_agent:            *)
(*   agent_state.py          AgentState, the execution ledger              *)
(*   tool_selector.py        AutonomousToolSelector, the decision adapter  *)
(*   v3_autonomous_agent.py  FullyAutonomousCodingAgent, the control loop  *)
(*   tools/*.py              the five capabilities                         *)
(*                                                                         *)
(* Python dicts are functions whose DOMAIN is the set of keys present.     *)
(* A text (stdout, stderr) is the bag of its lines by kind; timestamps,    *)
(* durations, the console log and thinking_history (log only) are left out.*)
(***************************************************************************)
EXTENDS Integers, Sequences, FiniteSets, TLC

VARIABLES
    state,          \* the AgentState of the session (solve_problem's `state`)
    pc,             \* position of the control in solve_problem
    decision,       \* solve_problem's `decision`
    llm_response,   \* decide_next_action's `llm_response`, while it is parsed
    fs,             \* the files under the workspace root: path -> content
    report          \* what solve_problem returns

vars == <<state, pc, decision, llm_response, fs, report>>

-----------------------------------------------------------------------------
(* Bounds of the model *)

MaxCalls == 3       \* largest configured max_tool_calls explored
MaxTests == 10      \* largest test count of a test summary
MaxRespLen == 2     \* longest oracle response, in tokens

-----------------------------------------------------------------------------
(* Python helpers *)

Get(d, k, default) == IF k \in DOMAIN d THEN d[k] ELSE default

EmptyDict == [k \in {} |-> TRUE]

\* d[k] = v
Put(d, k, v) == [x \in DOMAIN d \cup {k} |-> IF x = k THEN v ELSE d[x]]

\* a "parameters" value of a decision that is JSON but no object (a string)
NotMapping == [str |-> "abc"]

Min(a, b) == IF a < b THEN a ELSE b
Max(a, b) == IF a > b THEN a ELSE b

\* int(x / y) for y > 0: Python's int() truncates toward zero
IntTrunc(n, d) == IF n >= 0 THEN n \div d ELSE -((-n) \div d)

Last(s) == s[Len(s)]

\* A text is the bag of its lines: how many lines report a pass, report a
\* failure, mention testing, hold anything else, or are whitespace only.
Text(p, f, t, o, b) == [passed |-> p, failed |-> f, testing |-> t, other |-> o, blank |-> b]
EmptyText == Text(0, 0, 0, 0, 0)

\* str.strip(): whitespace at the ends goes; only the emptiness of the
\* result is ever observed, so the whitespace-only lines are dropped.
strip(text) == [text EXCEPT !.blank = 0]

\* truth value of a str: non-empty
Truthy(text) == text.passed + text.failed + text.testing + text.other + text.blank > 0

-----------------------------------------------------------------------------
(* agent_state.py *)

NoSolution == "None"

\* AgentState.__init__
AgentState(max_tool_calls) ==
    [ max_tool_calls     |-> max_tool_calls,
      tool_calls         |-> <<>>,
      remaining_calls    |-> max_tool_calls,
      files_created      |-> <<>>,
      execution_results  |-> <<>>,
      best_solution      |-> NoSolution,
      best_quality_score |-> 0,
      identified_issues  |-> <<>>,
      satisfaction_level |-> 0,
      confidence_level   |-> 0,
      is_satisfied       |-> FALSE,
      stop_reason        |-> "" ]

add_tool_call_no_decrement(s, tool_name, parameters, reasoning) ==
    [s EXCEPT !.tool_calls = Append(@, [ tool_name  |-> tool_name,
                                          parameters |-> parameters,
                                          result     |-> EmptyDict,
                                          reasoning  |-> reasoning,
                                          success    |-> FALSE ])]

\* AgentState.add_tool_call
add_tool_call(s, tool_name, parameters, reasoning) ==
    [s EXCEPT !.tool_calls = Append(@, [ tool_name  |-> tool_name,
                                          parameters |-> parameters,
                                          result     |-> EmptyDict,
                                          reasoning  |-> reasoning,
                                          success    |-> FALSE ]),
              !.remaining_calls = @ - 1]

\* AgentState.update_last_tool_call
update_last_tool_call(s, result) ==
    IF s.tool_calls # <<>>
    THEN [s EXCEPT !.tool_calls[Len(s.tool_calls)] =
                [@ EXCEPT !.result = result,
                          !.success = Get(result, "success", FALSE)]]
    ELSE s

\* AgentState.add_file
add_file(s, filename, path, content_type) ==
    [s EXCEPT !.files_created = Append(@, [ filename     |-> filename,
                                             path         |-> path,
                                             content_type |-> content_type ])]

calculate_quality_score_no_strip(exit_code, stdout, stderr, test_results) ==
    LET total_tests  == Get(test_results, "total_tests", 0)
        passed_tests == Get(test_results, "passed_tests", 0)
        score == (IF exit_code = 0 THEN 30 ELSE 0)
               + (IF Truthy(stdout) THEN 10 ELSE 0)
               + (IF Get(test_results, "has_test_output", FALSE)
                  THEN 10 + (IF total_tests > 0
                             THEN IntTrunc(40 * passed_tests, total_tests)
                             ELSE 0)
                  ELSE 0)
               + (IF ~Truthy(stderr) THEN 10 ELSE 0)
    IN  Min(100, score)

calculate_quality_score_any_exit(exit_code, stdout, stderr, test_results) ==
    LET total_tests  == Get(test_results, "total_tests", 0)
        passed_tests == Get(test_results, "passed_tests", 0)
        score == 30
               + (IF Truthy(strip(stdout)) THEN 10 ELSE 0)
               + (IF Get(test_results, "has_test_output", FALSE)
                  THEN 10 + (IF total_tests > 0
                             THEN IntTrunc(40 * passed_tests, total_tests)
                             ELSE 0)
                  ELSE 0)
               + (IF ~Truthy(strip(stderr)) THEN 10 ELSE 0)
    IN  Min(100, score)

\* AgentState._calculate_quality_score
\* pass_rate = passed_tests / total_tests is a float and int(40 * pass_rate)
\* truncates toward zero; for these magnitudes that is the exact quotient.
calculate_quality_score(exit_code, stdout, stderr, test_results) ==
    LET total_tests  == Get(test_results, "total_tests", 0)
        passed_tests == Get(test_results, "passed_tests", 0)
        score == (IF exit_code = 0 THEN 30 ELSE 0)
               + (IF Truthy(strip(stdout)) THEN 10 ELSE 0)
               + (IF Get(test_results, "has_test_output", FALSE)
                  THEN 10 + (IF total_tests > 0
                             THEN IntTrunc(40 * passed_tests, total_tests)
                             ELSE 0)
                  ELSE 0)
               + (IF ~Truthy(strip(stderr)) THEN 10 ELSE 0)
    IN  Min(100, score)

ExecutionResult(filename, exit_code, stdout, stderr, test_results) ==
    [ filename      |-> filename,
      exit_code     |-> exit_code,
      stdout        |-> stdout,
      stderr        |-> stderr,
      test_results  |-> test_results,
      quality_score |-> calculate_quality_score(exit_code, stdout, stderr, test_results) ]

add_execution_result_ge(s, filename, exit_code, stdout, stderr, test_results) ==
    LET r == ExecutionResult(filename, exit_code, stdout, stderr, test_results)
        s1 == [s EXCEPT !.execution_results = Append(@, r)]
    IN  IF r.quality_score >= s.best_quality_score
        THEN [s1 EXCEPT !.best_quality_score = r.quality_score,
                        !.best_solution = filename]
        ELSE s1

add_execution_result_latest(s, filename, exit_code, stdout, stderr, test_results) ==
    LET r == ExecutionResult(filename, exit_code, stdout, stderr, test_results)
        s1 == [s EXCEPT !.execution_results = Append(@, r)]
    IN  [s1 EXCEPT !.best_quality_score = r.quality_score,
                   !.best_solution = filename]

add_execution_result_overwriting(s, filename, exit_code, stdout, stderr, test_results) ==
    LET r == ExecutionResult(filename, exit_code, stdout, stderr, test_results)
        s1 == [s EXCEPT !.execution_results = <<r>>]
    IN  IF r.quality_score > s.best_quality_score
        THEN [s1 EXCEPT !.best_quality_score = r.quality_score,
                        !.best_solution = filename]
        ELSE s1

\* AgentState.add_execution_result
add_execution_result(s, filename, exit_code, stdout, stderr, test_results) ==
    LET r == ExecutionResult(filename, exit_code, stdout, stderr, test_results)
        s1 == [s EXCEPT !.execution_results = Append(@, r)]
    IN  IF r.quality_score > s.best_quality_score
        THEN [s1 EXCEPT !.best_quality_score = r.quality_score,
                        !.best_solution = filename]
        ELSE s1

\* AgentState.add_issue
add_issue(s, issue) ==
    IF \E i \in 1..Len(s.identified_issues) : s.identified_issues[i] = issue
    THEN s
    ELSE [s EXCEPT !.identified_issues = Append(@, issue)]

update_satisfaction_no_clamp(s, level) == [s EXCEPT !.satisfaction_level = level]

\* AgentState.update_satisfaction
update_satisfaction(s, level) == [s EXCEPT !.satisfaction_level = Max(0, Min(100, level))]

\* AgentState.update_confidence
update_confidence(s, level) == [s EXCEPT !.confidence_level = Max(0, Min(100, level))]


\* AgentState.get_recent_actions raises AttributeError at
\* call.parameters.items() when one of the last count records holds
\* parameters that are no dict
get_recent_actions_raises(s, count) ==
    \E i \in DOMAIN s.tool_calls :
        /\ i > Len(s.tool_calls) - count
        /\ s.tool_calls[i].parameters = NotMapping

mark_satisfied_first_reason_wins(s, reason) ==
    IF s.is_satisfied THEN s ELSE [s EXCEPT !.is_satisfied = TRUE, !.stop_reason = reason]

\* AgentState.mark_satisfied
mark_satisfied(s, reason) == [s EXCEPT !.is_satisfied = TRUE, !.stop_reason = reason]

-----------------------------------------------------------------------------
(* tools/*.py: the five capabilities *)

\* FullyAutonomousCodingAgent.__init__: self.tools, in insertion order
ToolOrder == <<"think", "generate_code", "read_file", "write_file", "execute_code">>
available_tools == {ToolOrder[i] : i \in 1..Len(ToolOrder)}

\* the names a tool's execute() requires
Required(tool_name) ==
    CASE tool_name = "think"         -> {"problem_statement"}
      [] tool_name = "generate_code" -> {"problem_statement", "thinking_output"}
      [] tool_name = "read_file"     -> {"filename"}
      [] tool_name = "write_file"    -> {"filename", "content"}
      [] tool_name = "execute_code"  -> {"filename"}

\* the names a tool's execute() accepts with a default
Optional(tool_name) ==
    CASE tool_name = "think"         -> {"previous_attempts", "context"}
      [] tool_name = "generate_code" -> {"previous_code", "execution_feedback"}
      [] tool_name = "read_file"     -> {"directory"}
      [] tool_name = "write_file"    -> {"directory", "overwrite"}
      [] tool_name = "execute_code"  -> {"directory", "timeout"}

\* execute(**parameters) binds: otherwise Python raises TypeError at the call
Binds(tool_name, parameters) ==
    /\ Required(tool_name) \subseteq DOMAIN parameters
    /\ DOMAIN parameters \subseteq Required(tool_name) \cup Optional(tool_name)

\* BaseTool.format_result
format_ok(result) == [success |-> TRUE, result |-> result]
format_error(error) == [success |-> FALSE, error |-> error]

\* the workspace root the agent was constructed with, as path components
workspace_path == <<"/", "ws">>

\* the components of a file or directory name: "/" first when it is absolute
components(name) ==
    CASE name = ""                     -> <<>>
      [] name = ".."                   -> <<"..">>
      [] name = "../sol.py"            -> <<"..", "sol.py">>
      [] name = "/tmp/sol.py"          -> <<"/", "tmp", "sol.py">>
      [] name = "/ws/solutions/sol.py" -> <<"/", "ws", "solutions", "sol.py">>
      [] OTHER                         -> <<name>>

\* os.path.join(a, b): an absolute b discards a
os_path_join(a, b) == IF b # <<>> /\ b[1] = "/" THEN b ELSE a \o b

\* the file the operating system reaches for a path: each ".." steps to
\* the parent directory, and the parent of "/" is "/"
RECURSIVE normpath(_)
normpath(path) ==
    IF path = <<>>
    THEN <<>>
    ELSE LET parent == normpath(SubSeq(path, 1, Len(path) - 1))
             name == path[Len(path)]
         IN  IF name # ".." \/ parent = <<>> THEN Append(parent, name)
             ELSE IF parent[Len(parent)] = ".." THEN Append(parent, name)
             ELSE IF parent[Len(parent)] = "/" THEN parent
             ELSE SubSeq(parent, 1, Len(parent) - 1)

\* os.path.join(workspace_path, directory, filename), or without the
\* directory when that is empty, as the file it names
file_path(parameters, default_directory) ==
    normpath(os_path_join(os_path_join(workspace_path,
                                       components(Get(parameters, "directory",
                                                      default_directory))),
                          components(parameters.filename)))

\* what a call of a tool gives: it raised, or it returned an envelope;
\* together with the files that exist afterwards
Returned(result, files) == [raised |-> FALSE, result |-> result, fs |-> files]
Raised(error, files) == [raised |-> TRUE, error |-> error, fs |-> files]

\* ThinkingTool.execute: the oracle answers, or its fault is caught
ThinkingTool_execute(parameters, files) ==
    { Returned(format_ok([thinking_process |-> "text"]), files),
      Returned(format_error("Thinking tool error"), files) }

\* CodeGenerationTool.execute
CodeGenerationTool_execute(parameters, files) ==
    { Returned(format_ok([generated_code |-> "code"]), files),
      Returned(format_error("Code generation error"), files) }

\* ReadFileTool.execute
ReadFileTool_execute(parameters, files) ==
    LET path == file_path(parameters, "")
    IN  IF path \notin DOMAIN files
        THEN { Returned(format_error("File not found"), files) }
        ELSE { Returned(format_ok([content |-> files[path], file_path |-> path]), files),
               Returned(format_error("Cannot read file"), files) }

WriteFileTool_execute_always_overwrites(parameters, files) ==
    LET path == file_path(parameters, "")
    IN  { Returned(format_ok([file_path |-> path]), Put(files, path, parameters.content)),
          Returned(format_error("OS error writing file"), files) }

\* WriteFileTool.execute: the file is written unless it exists and overwrite
\* is false; a fault of the file system is caught
WriteFileTool_execute(parameters, files) ==
    LET path == file_path(parameters, "")
    IN  IF path \in DOMAIN files /\ ~Get(parameters, "overwrite", TRUE)
        THEN { Returned(format_error("File already exists and overwrite=False"), files) }
        ELSE { Returned(format_ok([file_path |-> path]),
                        Put(files, path, parameters.content)),
               Returned(format_error("OS error writing file"), files) }

\* ExecutionTool._parse_test_results
parse_test_results(stdout) ==
    [ total_tests     |-> stdout.passed + stdout.failed,
      passed_tests    |-> stdout.passed,
      failed_tests    |-> stdout.failed,
      has_test_output |-> stdout.passed + stdout.failed + stdout.testing > 0 ]

\* ExecutionTool._run_python_script: what the subprocess can do
Run(returncode, stdout, stderr, timed_out) ==
    [returncode |-> returncode, stdout |-> stdout, stderr |-> stderr, timed_out |-> timed_out]

TimedOut_exit_zero == Run(0, EmptyText, Text(0, 0, 0, 1, 0), TRUE)

\* subprocess.TimeoutExpired and FileNotFoundError, as _run_python_script
\* reports them
TimedOut == Run(-1, EmptyText, Text(0, 0, 0, 1, 0), TRUE)
NoInterpreter == Run(-2, EmptyText, Text(0, 0, 0, 1, 0), FALSE)

\* the runs explored: a timeout, and scripts that exit by themselves
RunResults ==
    { TimedOut,
      Run(1, Text(0, 0, 0, 1, 0), Text(0, 0, 0, 1, 0), FALSE),   \* a crash with a traceback
      Run(0, Text(0, 0, 0, 0, 1), Text(0, 0, 0, 0, 1), FALSE),   \* whitespace only
      Run(0, Text(1, 7, 0, 0, 0), EmptyText, FALSE),             \* 1 of 8 passed
      Run(0, Text(1, 1, 1, 0, 0), EmptyText, FALSE),             \* 1 of 2 passed
      Run(0, Text(8, 2, 0, 1, 0), EmptyText, FALSE),             \* 8 of 10 passed
      Run(0, Text(2, 0, 0, 0, 0), EmptyText, FALSE) }            \* 2 of 2 passed

\* ExecutionTool.execute, the subprocess doing one of `runs`
ExecutionTool_execute(parameters, files, runs) ==
    LET path == file_path(parameters, "solutions")
    IN  IF path \notin DOMAIN files
        THEN { Returned(format_error("Script not found"), files) }
        ELSE { Returned(format_ok([ stdout    |-> r.stdout,
                                    stderr    |-> r.stderr,
                                    exit_code |-> r.returncode,
                                    analysis  |-> [ timed_out    |-> r.timed_out,
                                                    has_output   |-> Truthy(strip(r.stdout)),
                                                    test_results |-> parse_test_results(r.stdout) ] ]),
                        files) : r \in runs }

\* self.tools[tool_name].execute(**parameters)
tool_execute(tool_name, parameters, files) ==
    IF ~Binds(tool_name, parameters)
    THEN { Raised("TypeError", files) }
    ELSE CASE tool_name = "think"         -> ThinkingTool_execute(parameters, files)
           [] tool_name = "generate_code" -> CodeGenerationTool_execute(parameters, files)
           [] tool_name = "read_file"     -> ReadFileTool_execute(parameters, files)
           [] tool_name = "write_file"    -> WriteFileTool_execute(parameters, files)
           [] tool_name = "execute_code"  -> ExecutionTool_execute(parameters, files, RunResults)

-----------------------------------------------------------------------------
(* tool_selector.py *)

\* An oracle response is a sequence of tokens: a lone "{", a lone "}", a
\* word of prose, or the text of one well-formed JSON object (which begins
\* with "{" and ends with "}").
LB == [t |-> "lb"]
RB == [t |-> "rb"]
Word(w) == [t |-> "word", w |-> w]
Obj(v) == [t |-> "obj", v |-> v]

\* a JSON value no dict can hold as a key (a list): `tool in available_tools`
\* raises TypeError on it
Unhashable == "[list]"

\* str.lower() of a word
lower(w) ==
    CASE w = "DONE"  -> "done"
      [] w = "Think" -> "think"
      [] OTHER       -> w

\* sub in w, for the words of the model
Contains(w, sub) ==
    \/ w = sub
    \/ <<w, sub>> \in { <<"thinking_output", "think">>, <<"undone", "done">> }

\* the strings a token's text is made of
TokenStrings(tok) ==
    CASE tok.t = "word" -> {tok.w}
      [] tok.t = "obj"  ->
            DOMAIN tok.v
            \cup (IF "action" \in DOMAIN tok.v THEN {tok.v.action} ELSE {})
            \cup (IF "tool" \in DOMAIN tok.v THEN {tok.v.tool} ELSE {})
            \cup (IF "reasoning" \in DOMAIN tok.v THEN {tok.v.reasoning} ELSE {})
            \cup (IF "parameters" \in DOMAIN tok.v THEN DOMAIN tok.v.parameters ELSE {})
      [] OTHER          -> {}

\* sub in response.lower()
InLower(response, sub) ==
    \E i \in 1..Len(response) : \E w \in TokenStrings(response[i]) : Contains(lower(w), sub)

\* response_text.find('{'), 1-based, 0 when absent
find_open(response) ==
    LET at == {i \in 1..Len(response) : response[i].t \in {"lb", "obj"}}
    IN  IF at = {} THEN 0 ELSE CHOOSE i \in at : \A j \in at : i <= j

\* response_text.rfind('}'), 1-based, 0 when absent
rfind_close(response) ==
    LET at == {i \in 1..Len(response) : response[i].t \in {"rb", "obj"}}
    IN  IF at = {} THEN 0 ELSE CHOOSE i \in at : \A j \in at : i >= j

\* json.loads of the tokens from..to: one object's text is that object,
\* "{" "}" is the empty object, anything else is a JSONDecodeError
json_loads(response, from, to) ==
    LET span == SubSeq(response, from, to)
    IN  IF Len(span) = 1 /\ span[1].t = "obj"
        THEN [raised |-> FALSE, value |-> span[1].v]
        ELSE IF span = <<LB, RB>>
        THEN [raised |-> FALSE, value |-> EmptyDict]
        ELSE [raised |-> TRUE]

get_fallback_decision_improve_below_80(s) ==
    IF s.files_created = <<>>
    THEN [ action |-> "use_tool", tool |-> "think",
           parameters |-> [focus |-> "problem analysis", context |-> "Starting problem analysis"],
           reasoning |-> "Fallback: Starting with problem analysis" ]
    ELSE IF /\ s.execution_results = <<>>
            /\ Last(s.files_created).filename \in {"sol.py"}   \* .endswith('.py')
    THEN [ action |-> "use_tool", tool |-> "execute_code",
           parameters |-> [filename |-> Last(s.files_created).filename, goal |-> "test the solution"],
           reasoning |-> "Fallback: Testing the generated solution" ]
    ELSE IF s.best_quality_score < 80
    THEN [ action |-> "use_tool", tool |-> "think",
           parameters |-> [focus |-> "solution improvement", context |-> "Current quality"],
           reasoning |-> "Fallback: Analyzing ways to improve solution quality" ]
    ELSE IF s.remaining_calls <= 1 \/ s.best_quality_score >= 80
    THEN [ action |-> "stop",
           reasoning |-> IF s.remaining_calls <= 1
                         THEN "Fallback: Stopping due to call limit"
                         ELSE "Fallback: Stopping due to good quality achieved" ]
    ELSE [ action |-> "use_tool", tool |-> "generate_code",
           parameters |-> [approach |-> "improved solution", based_on |-> "previous attempts"],
           reasoning |-> "Fallback: Generating improved solution" ]

get_fallback_decision_generate_first(s) ==
    IF s.files_created = <<>>
    THEN [ action |-> "use_tool", tool |-> "generate_code",
           parameters |-> [approach |-> "improved solution", based_on |-> "previous attempts"],
           reasoning |-> "Fallback: Generating improved solution" ]
    ELSE IF /\ s.execution_results = <<>>
            /\ Last(s.files_created).filename \in {"sol.py"}   \* .endswith('.py')
    THEN [ action |-> "use_tool", tool |-> "execute_code",
           parameters |-> [filename |-> Last(s.files_created).filename, goal |-> "test the solution"],
           reasoning |-> "Fallback: Testing the generated solution" ]
    ELSE IF s.best_quality_score < 70
    THEN [ action |-> "use_tool", tool |-> "think",
           parameters |-> [focus |-> "solution improvement", context |-> "Current quality"],
           reasoning |-> "Fallback: Analyzing ways to improve solution quality" ]
    ELSE IF s.remaining_calls <= 1 \/ s.best_quality_score >= 80
    THEN [ action |-> "stop",
           reasoning |-> IF s.remaining_calls <= 1
                         THEN "Fallback: Stopping due to call limit"
                         ELSE "Fallback: Stopping due to good quality achieved" ]
    ELSE [ action |-> "use_tool", tool |-> "generate_code",
           parameters |-> [approach |-> "improved solution", based_on |-> "previous attempts"],
           reasoning |-> "Fallback: Generating improved solution" ]

\* AutonomousToolSelector._get_fallback_decision
get_fallback_decision(s) ==
    IF s.files_created = <<>>
    THEN [ action |-> "use_tool", tool |-> "think",
           parameters |-> [focus |-> "problem analysis", context |-> "Starting problem analysis"],
           reasoning |-> "Fallback: Starting with problem analysis" ]
    ELSE IF /\ s.execution_results = <<>>
            /\ Last(s.files_created).filename \in {"sol.py"}   \* .endswith('.py')
    THEN [ action |-> "use_tool", tool |-> "execute_code",
           parameters |-> [filename |-> Last(s.files_created).filename, goal |-> "test the solution"],
           reasoning |-> "Fallback: Testing the generated solution" ]
    ELSE IF s.best_quality_score < 70
    THEN [ action |-> "use_tool", tool |-> "think",
           parameters |-> [focus |-> "solution improvement", context |-> "Current quality"],
           reasoning |-> "Fallback: Analyzing ways to improve solution quality" ]
    ELSE IF s.remaining_calls <= 1 \/ s.best_quality_score >= 80
    THEN [ action |-> "stop",
           reasoning |-> IF s.remaining_calls <= 1
                         THEN "Fallback: Stopping due to call limit"
                         ELSE "Fallback: Stopping due to good quality achieved" ]
    ELSE [ action |-> "use_tool", tool |-> "generate_code",
           parameters |-> [approach |-> "improved solution", based_on |-> "previous attempts"],
           reasoning |-> "Fallback: Generating improved solution" ]

\* AutonomousToolSelector._validate_decision: whether it raised, what it
\* returned, and the decision as repaired in place (of its keys, those the
\* control loop reads)
validate_decision(d) ==
    LET action == Get(d, "action", "None")
        tool == Get(d, "tool", "None")
    IN  IF action \notin {"use_tool", "stop"}
        THEN [raised |-> FALSE, valid |-> FALSE, decision |-> d]
        ELSE IF action = "use_tool"
        THEN IF tool = Unhashable
             THEN [raised |-> TRUE, valid |-> FALSE, decision |-> d]
             ELSE IF tool \notin available_tools
             THEN [raised |-> FALSE, valid |-> FALSE, decision |-> d]
             ELSE [ raised |-> FALSE, valid |-> TRUE,
                    decision |-> [ action |-> "use_tool", tool |-> tool,
                                   parameters |-> Get(d, "parameters", EmptyDict),
                                   reasoning |-> Get(d, "reasoning", "No reasoning provided") ] ]
        ELSE [ raised |-> FALSE, valid |-> TRUE,
               decision |-> [ action |-> "stop",
                              reasoning |-> Get(d, "reasoning", "Agent decided to stop") ] ]

stop_indicators == {"stop", "satisfied", "complete", "finished", "done"}

interpret_text_response_tools_first(response, s) ==
    LET named == {i \in 1..Len(ToolOrder) : InLower(response, ToolOrder[i])}
    IN  IF named # {}
        THEN [ action |-> "use_tool",
               tool |-> ToolOrder[CHOOSE i \in named : \A j \in named : i <= j],
               parameters |-> EmptyDict,
               reasoning |-> "Interpreted tool from response" ]
        ELSE IF \E indicator \in stop_indicators : InLower(response, indicator)
        THEN [action |-> "stop", reasoning |-> "Interpreted from response"]
        ELSE get_fallback_decision(s)

\* AutonomousToolSelector._interpret_text_response
interpret_text_response(response, s) ==
    IF \E indicator \in stop_indicators : InLower(response, indicator)
    THEN [action |-> "stop", reasoning |-> "Interpreted from response"]
    ELSE LET named == {i \in 1..Len(ToolOrder) : InLower(response, ToolOrder[i])}
         IN  IF named # {}
             THEN [ action |-> "use_tool",
                    tool |-> ToolOrder[CHOOSE i \in named : \A j \in named : i <= j],
                    parameters |-> EmptyDict,
                    reasoning |-> "Interpreted tool from response" ]
             ELSE get_fallback_decision(s)

parse_llm_decision_text_first(response, s) ==
    LET json_start == find_open(response)
        json_end == rfind_close(response)
    IN  IF \E indicator \in stop_indicators : InLower(response, indicator)
        THEN interpret_text_response(response, s)
        ELSE IF json_start >= 1 /\ json_end >= json_start
        THEN LET parsed == json_loads(response, json_start, json_end)
             IN  IF parsed.raised
                 THEN get_fallback_decision(s)
                 ELSE LET checked == validate_decision(parsed.value)
                      IN  IF checked.raised
                          THEN get_fallback_decision(s)
                          ELSE IF checked.valid
                          THEN checked.decision
                          ELSE interpret_text_response(response, s)
        ELSE interpret_text_response(response, s)

\* AutonomousToolSelector._parse_llm_decision
parse_llm_decision(response, s) ==
    LET json_start == find_open(response)
        json_end == rfind_close(response)
    IN  IF json_start >= 1 /\ json_end >= json_start
        THEN LET parsed == json_loads(response, json_start, json_end)
             IN  IF parsed.raised
                 THEN get_fallback_decision(s)
                 ELSE LET checked == validate_decision(parsed.value)
                      IN  IF checked.raised
                          THEN get_fallback_decision(s)
                          ELSE IF checked.valid
                          THEN checked.decision
                          ELSE interpret_text_response(response, s)
        ELSE interpret_text_response(response, s)

-----------------------------------------------------------------------------
(* v3_autonomous_agent.py *)

process_tool_result_records_failed_write(s, tool_name, result, parameters) ==
    LET tool_result == Get(result, "result", EmptyDict)
    IN  IF tool_name = "write_file"
        THEN add_file(s, Get(parameters, "filename", "unknown"),
                      Get(tool_result, "file_path", "unknown"),
                      Get(parameters, "type", "unknown"))
        ELSE IF ~Get(result, "success", FALSE)
        THEN s
        ELSE IF tool_name = "execute_code"
        THEN add_execution_result(s,
                Get(parameters, "filename", "unknown"),
                Get(tool_result, "exit_code", -1),
                Get(tool_result, "stdout", EmptyText),
                Get(tool_result, "stderr", EmptyText),
                Get(Get(tool_result, "analysis", EmptyDict), "test_results", EmptyDict))
        ELSE s

process_tool_result_records_failed_run(s, tool_name, result, parameters) ==
    LET tool_result == Get(result, "result", EmptyDict)
    IN  IF tool_name = "execute_code"
        THEN add_execution_result(s,
                Get(parameters, "filename", "unknown"),
                Get(tool_result, "exit_code", -1),
                Get(tool_result, "stdout", EmptyText),
                Get(tool_result, "stderr", EmptyText),
                Get(Get(tool_result, "analysis", EmptyDict), "test_results", EmptyDict))
        ELSE IF ~Get(result, "success", FALSE)
        THEN s
        ELSE IF tool_name = "write_file"
        THEN add_file(s, Get(parameters, "filename", "unknown"),
                      Get(tool_result, "file_path", "unknown"),
                      Get(parameters, "type", "unknown"))
        ELSE s

\* FullyAutonomousCodingAgent._process_tool_result
process_tool_result(s, tool_name, result, parameters) ==
    IF ~Get(result, "success", FALSE)
    THEN s
    ELSE LET tool_result == result.result
         IN  CASE tool_name = "write_file" ->
                    add_file(s, Get(parameters, "filename", "unknown"),
                             result.result.file_path,
                             Get(parameters, "type", "unknown"))
               [] tool_name = "execute_code" ->
                    add_execution_result(s,
                        Get(parameters, "filename", "unknown"),
                        Get(tool_result, "exit_code", -1),
                        Get(tool_result, "stdout", EmptyText),
                        Get(tool_result, "stderr", EmptyText),
                        Get(Get(tool_result, "analysis", EmptyDict), "test_results", EmptyDict))
               [] OTHER -> s     \* think, generate_code, read_file: a thought only

Issue(tool_name, what, error) == [tool_name |-> tool_name, what |-> what, error |-> error]

\* sys.stdout's error handler, which the locale decides: print raises
\* UnicodeEncodeError on a lone surrogate under "strict"; an agent with
\* verbose false prints nothing and behaves as under "surrogateescape"
Consoles == {"strict", "surrogateescape"}

\* a file name with a lone surrogate, as json.loads makes of "a\udc80.py":
\* the file system takes it, a strict console does not
Unprintable(name) == name = "a\\udc80.py"

\* self.log raises inside the try block of _execute_tool_decision, after
\* update_last_tool_call and _process_tool_result have run: at "Created
\* file: {filename}", at "Executed {filename}", or at "Tool error: {error}"
\* for the errors of the file capabilities, which name the file
log_raises(d, result, console) ==
    /\ console = "strict"
    /\ d.tool \in {"read_file", "write_file", "execute_code"}
    /\ Unprintable(Get(d.parameters, "filename", "unknown"))
    /\ \/ ~Get(result, "success", FALSE)
       \/ d.tool \in {"write_file", "execute_code"}

execute_tool_decision_fault_unrecorded(s, d, outcome, console) ==
    IF outcome.raised
    THEN s
    ELSE LET s1 == update_last_tool_call(s, outcome.result)
             s2 == process_tool_result(s1, d.tool, outcome.result, d.parameters)
         IN  IF log_raises(d, outcome.result, console)
             THEN s2
             ELSE IF ~Get(outcome.result, "success", FALSE)
             THEN add_issue(s2, Issue(d.tool, "failed",
                                      Get(outcome.result, "error", "Unknown error")))
             ELSE s2

\* FullyAutonomousCodingAgent._execute_tool_decision, given what
\* self.tools[tool_name].execute(**parameters) did
execute_tool_decision(s, d, outcome, console) ==
    IF outcome.raised
    THEN add_issue(update_last_tool_call(s, format_error(outcome.error)),
                   Issue(d.tool, "execution error", outcome.error))
    ELSE LET s1 == update_last_tool_call(s, outcome.result)
             s2 == process_tool_result(s1, d.tool, outcome.result, d.parameters)
         IN  IF log_raises(d, outcome.result, console)
             THEN add_issue(update_last_tool_call(s2, format_error("UnicodeEncodeError")),
                            Issue(d.tool, "execution error", "UnicodeEncodeError"))
             ELSE IF ~Get(outcome.result, "success", FALSE)
             THEN add_issue(s2, Issue(d.tool, "failed",
                                      Get(outcome.result, "error", "Unknown error")))
             ELSE s2

update_agent_assessment_no_auto(s) ==
    LET satisfaction == (IF s.files_created # <<>> THEN 20 ELSE 0)
                      + (IF s.execution_results # <<>> THEN 20 ELSE 0)
                      + (IF s.best_quality_score > 0
                         THEN Min(50, s.best_quality_score \div 2) ELSE 0)
        confidence == (IF Len(s.tool_calls) > 0 THEN 20 ELSE 0)
                    + (IF s.best_quality_score >= 70 THEN 50 ELSE 0)
                    + (IF s.identified_issues = <<>> THEN 30 ELSE 0)
    IN  update_confidence(update_satisfaction(s, satisfaction), confidence)

update_agent_assessment_ignoring_issues(s) ==
    LET satisfaction == (IF s.files_created # <<>> THEN 20 ELSE 0)
                      + (IF s.execution_results # <<>> THEN 20 ELSE 0)
                      + (IF s.best_quality_score > 0
                         THEN Min(50, s.best_quality_score \div 2) ELSE 0)
        confidence == (IF Len(s.tool_calls) > 0 THEN 20 ELSE 0)
                    + (IF s.best_quality_score >= 70 THEN 50 ELSE 0)
                    + 30
        s1 == update_confidence(update_satisfaction(s, satisfaction), confidence)
    IN  IF s1.best_quality_score >= 90 /\ ~s1.is_satisfied
        THEN mark_satisfied(s1, "High quality solution achieved")
        ELSE s1

\* FullyAutonomousCodingAgent._update_agent_assessment
update_agent_assessment(s) ==
    LET satisfaction == (IF s.files_created # <<>> THEN 20 ELSE 0)
                      + (IF s.execution_results # <<>> THEN 20 ELSE 0)
                      + (IF s.best_quality_score > 0
                         THEN Min(50, s.best_quality_score \div 2) ELSE 0)
        confidence == (IF Len(s.tool_calls) > 0 THEN 20 ELSE 0)
                    + (IF s.best_quality_score >= 70 THEN 50 ELSE 0)
                    + (IF s.identified_issues = <<>> THEN 30 ELSE 0)
        s1 == update_confidence(update_satisfaction(s, satisfaction), confidence)
    IN  IF s1.best_quality_score >= 90 /\ ~s1.is_satisfied
        THEN mark_satisfied(s1, "High quality solution achieved")
        ELSE s1

make_autonomous_decision_always_records(s, d) ==
    add_tool_call(s, Get(d, "tool", "None"), Get(d, "parameters", EmptyDict), d.reasoning)

\* FullyAutonomousCodingAgent._make_autonomous_decision, given the decision
\* of tool_selector.decide_next_action
make_autonomous_decision(s, d) ==
    IF d.action = "use_tool"
    THEN add_tool_call(s, d.tool, d.parameters, d.reasoning)
    ELSE s

loop_condition_ignoring_budget(s) == ~s.is_satisfied

loop_condition_off_by_one(s) == s.remaining_calls >= 0 /\ ~s.is_satisfied

loop_condition_ignoring_satisfied(s) == s.remaining_calls > 0

\* solve_problem: the condition of the while loop
loop_condition(s) == s.remaining_calls > 0 /\ ~s.is_satisfied

\* AutonomousToolSelector.get_tool_usage_stats; success_rate as the pair
\* <<successes, max(1, calls)>>
get_tool_usage_stats(s) ==
    LET names == { s.tool_calls[i].tool_name : i \in DOMAIN s.tool_calls }
    IN  [ total_calls  |-> Len(s.tool_calls),
          tool_usage   |-> [ t \in names |->
                               Cardinality({ i \in DOMAIN s.tool_calls :
                                               s.tool_calls[i].tool_name = t }) ],
          success_rate |-> << Cardinality({ i \in DOMAIN s.tool_calls :
                                              s.tool_calls[i].success }),
                              Max(1, Len(s.tool_calls)) >> ]

generate_session_report_successes_only(s) ==
    LET done == SelectSeq(s.tool_calls, LAMBDA call : call.success)
    IN  [ completion_status |-> IF s.is_satisfied THEN "SUCCESS" ELSE "INCOMPLETE",
          is_satisfied      |-> s.is_satisfied,
          stop_reason       |-> s.stop_reason,
          total_tool_calls  |-> Len(s.tool_calls),
          max_tool_calls    |-> s.max_tool_calls,
          tool_usage        |-> get_tool_usage_stats(s),
          decision_trail    |-> [ i \in DOMAIN done |->
                                    [ tool      |-> done[i].tool_name,
                                      reasoning |-> done[i].reasoning,
                                      success   |-> done[i].success ] ] ]

\* FullyAutonomousCodingAgent._generate_session_report
generate_session_report(s) ==
    [ completion_status |-> IF s.is_satisfied THEN "SUCCESS" ELSE "INCOMPLETE",
      is_satisfied      |-> s.is_satisfied,
      stop_reason       |-> s.stop_reason,
      total_tool_calls  |-> Len(s.tool_calls),
      max_tool_calls    |-> s.max_tool_calls,
      tool_usage        |-> get_tool_usage_stats(s),
      decision_trail    |-> [ i \in DOMAIN s.tool_calls |->
                                [ tool      |-> s.tool_calls[i].tool_name,
                                  reasoning |-> s.tool_calls[i].reasoning,
                                  success   |-> s.tool_calls[i].success ] ] ]

\* FullyAutonomousCodingAgent._generate_error_report
generate_error_report(s, error) ==
    [ completion_status |-> "ERROR",
      error             |-> error,
      is_satisfied      |-> FALSE,
      stop_reason       |-> "Session error",
      total_tool_calls  |-> Len(s.tool_calls) ]

-----------------------------------------------------------------------------
(* A session: solve_problem under an arbitrary oracle *)

Files == {"sol.py", "notes.txt"}
SessionPaths == {file_path([filename |-> f], "solutions") : f \in Files}

\* a workspace that holds every file of the session from an earlier one
SessionFiles == [path \in SessionPaths |-> "old"]

\* the parameters the oracle names in a session
SessionParameters(tool_name) ==
    CASE tool_name = "think"         -> { [problem_statement |-> "p"] }
      [] tool_name = "generate_code" -> { [problem_statement |-> "p", thinking_output |-> "t"] }
      [] tool_name = "read_file"     -> { [filename |-> "sol.py", directory |-> "solutions"] }
      [] tool_name = "write_file"    ->
            { [filename |-> f, content |-> "c", directory |-> "solutions"] : f \in Files }
            \cup { [filename |-> "sol.py", content |-> "c", directory |-> "solutions",
                    overwrite |-> FALSE] }
      [] tool_name = "execute_code"  -> { [filename |-> f] : f \in Files }

\* the JSON objects the oracle emits in a session
SessionObjects ==
    { [action |-> "stop", reasoning |-> "llm reasoning"],
      [action |-> "stop"],
      [action |-> "use_tool", tool |-> "think"],
      [action |-> "use_tool", tool |-> "think", parameters |-> NotMapping],
      [action |-> "use_tool", tool |-> "format_disk", parameters |-> EmptyDict,
       reasoning |-> "llm reasoning"],
      [action |-> "use_tool", tool |-> Unhashable],
      [action |-> "wait"] }
    \cup UNION { { [action |-> "use_tool", tool |-> t, parameters |-> p,
                     reasoning |-> "llm reasoning"] : p \in SessionParameters(t) } :
                  t \in available_tools }

\* the responses of the oracle in a session: nothing, prose, a stop word, a
\* tool's name, unbalanced braces, or one JSON object
SessionResponses ==
    { <<>>, <<Word("hello")>>, <<Word("DONE")>>, <<Word("read_file")>>,
      <<LB, Word("hello")>> }
    \cup { <<Obj(o)>> : o \in SessionObjects }

NoDecision == [action |-> "none"]
NoReport == [completion_status |-> "none"]

\* an exception on its way to solve_problem's except clause
Failure(error) == [completion_status |-> "raised", error |-> error]

\* FullyAutonomousCodingAgent.__init__ and the head of solve_problem: a fresh
\* ledger with the configured budget; the workspace may hold earlier files
Init ==
    /\ \E m \in 0..MaxCalls : state = AgentState(m)
    /\ pc = "loop"
    /\ decision = NoDecision
    /\ llm_response = <<>>
    /\ fs \in {EmptyDict, SessionFiles}
    /\ report = NoReport

\* solve_problem: while state.remaining_calls > 0 and not state.is_satisfied
LoopTest ==
    /\ pc = "loop"
    /\ pc' = IF loop_condition(state) THEN "decide" ELSE "report"
    /\ UNCHANGED <<state, decision, llm_response, fs, report>>

\* decision = self._make_autonomous_decision(state): the context summary is
\* built, the oracle answers
Decide ==
    /\ pc = "decide"
    /\ ~get_recent_actions_raises(state, 3)
    /\ \E response \in SessionResponses :
          /\ decision' = parse_llm_decision(response, state)
          /\ state' = make_autonomous_decision(state, decision')
    /\ pc' = "decided"
    /\ UNCHANGED <<llm_response, fs, report>>

\* self.llm_client.complete raises inside decide_next_action: nothing there
\* catches it, solve_problem's except clause does
OracleFault ==
    /\ pc = "decide"
    /\ ~get_recent_actions_raises(state, 3)
    /\ pc' = "failed"
    /\ report' = Failure("oracle fault")
    /\ UNCHANGED <<state, decision, llm_response, fs>>

\* decide_next_action: context = state.get_current_context_summary() raises
\* before the oracle is asked; solve_problem's except clause catches it
ContextFault ==
    /\ pc = "decide"
    /\ get_recent_actions_raises(state, 3)
    /\ pc' = "failed"
    /\ report' = Failure("AttributeError")
    /\ UNCHANGED <<state, decision, llm_response, fs>>

\* solve_problem: if decision["action"] == "stop": mark_satisfied; break
StopDecision ==
    /\ pc = "decided"
    /\ decision.action = "stop"
    /\ state' = mark_satisfied(state, decision.reasoning)
    /\ pc' = "report"
    /\ UNCHANGED <<decision, llm_response, fs, report>>

\* solve_problem: self._execute_tool_decision(decision, state)
ExecuteToolDecision ==
    /\ pc = "decided"
    /\ decision.action # "stop"
    /\ \E outcome \in tool_execute(decision.tool, decision.parameters, fs), console \in Consoles :
          /\ state' = execute_tool_decision(state, decision, outcome, console)
          /\ fs' = outcome.fs
    /\ pc' = "assess"
    /\ UNCHANGED <<decision, llm_response, report>>

\* solve_problem: self._update_agent_assessment(state)
UpdateAgentAssessment ==
    /\ pc = "assess"
    /\ state' = update_agent_assessment(state)
    /\ pc' = "loop"
    /\ UNCHANGED <<decision, llm_response, fs, report>>

\* solve_problem: return self._generate_session_report(state, session_time)
SessionReport ==
    /\ pc = "report"
    /\ report' = generate_session_report(state)
    /\ pc' = "done"
    /\ UNCHANGED <<state, decision, llm_response, fs>>

\* solve_problem: except Exception: return self._generate_error_report(...)
ErrorReport ==
    /\ pc = "failed"
    /\ report' = generate_error_report(state, report.error)
    /\ pc' = "done"
    /\ UNCHANGED <<state, decision, llm_response, fs>>

Next ==
    \/ LoopTest
    \/ Decide
    \/ OracleFault
    \/ ContextFault
    \/ StopDecision
    \/ ExecuteToolDecision
    \/ UpdateAgentAssessment
    \/ SessionReport
    \/ ErrorReport

Spec == Init /\ [][Next]_vars

\* solve_problem is one sequential thread: while it has a step to take, it
\* takes one
FairSpec == Spec /\ WF_vars(Next)

\* KeyboardInterrupt arrives while solve_problem runs: it is no Exception, so
\* neither _execute_tool_decision's nor solve_problem's except clause catches
\* it, and it leaves solve_problem with nothing written and no report
Interrupt ==
    /\ pc \in {"loop", "decide", "decided", "assess", "report", "failed"}
    /\ pc' = "interrupted"
    /\ UNCHANGED <<state, decision, llm_response, fs, report>>

NextInterruptible ==
    \/ Next
    \/ Interrupt

SpecInterrupt == Init /\ [][NextInterruptible]_vars

-----------------------------------------------------------------------------
(* The run capability and the outcome evaluator on their whole input range *)

ExecuteSol == [ action |-> "use_tool", tool |-> "execute_code",
                parameters |-> [filename |-> "sol.py"], reasoning |-> "llm reasoning" ]
ExecuteNotes == [ action |-> "use_tool", tool |-> "execute_code",
                  parameters |-> [filename |-> "notes.txt"], reasoning |-> "llm reasoning" ]

\* a session at the point where execute_code on sol.py has been decided:
\* as its first invocation, or after a run of notes.txt that scored 65
FirstExecution == make_autonomous_decision(AgentState(2), ExecuteSol)
SecondExecution ==
    LET s1 == make_autonomous_decision(AgentState(2), ExecuteNotes)
        earlier == CHOOSE o \in ExecutionTool_execute(ExecuteNotes.parameters, SessionFiles,
                                      {Run(0, Text(1, 7, 0, 0, 0), EmptyText, FALSE)}) : TRUE
        s2 == update_agent_assessment(execute_tool_decision(s1, ExecuteNotes, earlier, "strict"))
    IN  make_autonomous_decision(s2, ExecuteSol)

InitExecution ==
    /\ state \in {FirstExecution, SecondExecution}
    /\ pc = "decided"
    /\ decision = ExecuteSol
    /\ llm_response = <<>>
    /\ fs = SessionFiles
    /\ report = NoReport

\* every output of at most MaxTests lines that report a result
Stdouts ==
    { Text(p, f, t, o, b) : p \in 0..MaxTests, f \in 0..MaxTests,
                             t \in 0..1, o \in 0..1, b \in 0..1 }
    \ { x \in [passed : 0..MaxTests, failed : 0..MaxTests, testing : 0..1,
               other : 0..1, blank : 0..1] : x.passed + x.failed > MaxTests }
Stderrs == { EmptyText, Text(0, 0, 0, 0, 1), Text(0, 0, 0, 1, 0) }

\* every run of ExecutionTool._run_python_script
AllRuns ==
    {TimedOut, NoInterpreter}
    \cup { Run(rc, out, err, FALSE) : rc \in {0, 1, 2}, out \in Stdouts, err \in Stderrs }

\* _execute_tool_decision with the real run capability, whatever the script does
ExecuteAnyScript ==
    /\ pc = "decided"
    /\ \E outcome \in ExecutionTool_execute(decision.parameters, fs, AllRuns), console \in Consoles :
          /\ state' = execute_tool_decision(state, decision, outcome, console)
          /\ fs' = outcome.fs
    /\ pc' = "assess"
    /\ UNCHANGED <<decision, llm_response, report>>

SpecRun == InitExecution /\ [][ExecuteAnyScript]_vars

\* every test summary a capability's envelope can carry: any of the keys may
\* be missing, the counts need not be consistent
Counts == -1..(MaxTests + 1)
Entry(key, values) == {EmptyDict} \cup { [k \in {key} |-> v] : v \in values }
TestSummaries ==
    { has @@ total @@ passed : has \in Entry("has_test_output", BOOLEAN),
                               total \in Entry("total_tests", Counts),
                               passed \in Entry("passed_tests", Counts) }

\* every envelope a stand-in for the run capability can return as a success
AnyExecutionResults ==
    { [ exit_code |-> rc, stdout |-> out, stderr |-> err,
        analysis |-> [test_results |-> summary] ] :
        rc \in {-1, 0, 1}, out \in Stderrs, err \in Stderrs,
        summary \in TestSummaries }

\* _execute_tool_decision with a stand-in for the run capability
ExecuteAnyEnvelope ==
    /\ pc = "decided"
    /\ \E result \in AnyExecutionResults, console \in Consoles :
          state' = execute_tool_decision(state, decision, Returned(format_ok(result), fs), console)
    /\ pc' = "assess"
    /\ UNCHANGED <<decision, llm_response, fs, report>>

SpecEval == InitExecution /\ [][ExecuteAnyEnvelope]_vars

-----------------------------------------------------------------------------
(* The decision adapter on every short response *)

ParseObjects ==
    { [action |-> "stop", reasoning |-> "llm reasoning"],
      [action |-> "stop"],
      [action |-> "use_tool", tool |-> "think", parameters |-> [problem_statement |-> "p"],
       reasoning |-> "llm reasoning"],
      [action |-> "use_tool", tool |-> "write_file"],
      [action |-> "use_tool", tool |-> "think", parameters |-> NotMapping],
      [action |-> "use_tool", tool |-> "format_disk",
       parameters |-> [thinking_output |-> "t"], reasoning |-> "llm reasoning"],
      [action |-> "use_tool", tool |-> Unhashable],
      [action |-> "wait"],
      [reasoning |-> "llm reasoning"] }

ParseWords == {"hello", "DONE", "finished", "think", "read_file"}

Tokens == {LB, RB} \cup {Word(w) : w \in ParseWords} \cup {Obj(o) : o \in ParseObjects}

Responses == UNION { [1..n -> Tokens] : n \in 0..MaxRespLen }

\* one cycle of solve_problem that dispatches decision d with the given outcome
Cycle(s, d, outcome) ==
    update_agent_assessment(execute_tool_decision(make_autonomous_decision(s, d), d, outcome,
                                                  "strict"))

WriteFile(f) == [ action |-> "use_tool", tool |-> "write_file",
                  parameters |-> [filename |-> f, content |-> "c", directory |-> "solutions"],
                  reasoning |-> "llm reasoning" ]
Written(f) ==
    Returned(format_ok([file_path |-> file_path([filename |-> f], "solutions")]), SessionFiles)
Ran(stdout) ==
    CHOOSE o \in ExecutionTool_execute(ExecuteSol.parameters, SessionFiles,
                                       {Run(0, stdout, EmptyText, FALSE)}) : TRUE

\* the decision validated from {"action": "use_tool", "tool": "think",
\* "parameters": "abc"}
ThinkNotMapping == validate_decision([action |-> "use_tool", tool |-> "think",
                                      parameters |-> NotMapping]).decision

\* ledgers of sessions about to ask the oracle: fresh; one artifact; one
\* artifact run with a best score of 65, 70 and 80; out of budget but for
\* one; one invocation whose parameters were a string
ParseLedgers ==
    LET fresh == AgentState(4)
        sol == Cycle(fresh, WriteFile("sol.py"), Written("sol.py"))
        notes == Cycle(fresh, WriteFile("notes.txt"), Written("notes.txt"))
    IN  { fresh, sol, notes,
          Cycle(sol, ExecuteSol, Ran(Text(1, 7, 0, 0, 0))),
          Cycle(sol, ExecuteSol, Ran(Text(1, 3, 0, 0, 0))),
          Cycle(sol, ExecuteSol, Ran(Text(1, 1, 0, 0, 0))),
          Cycle(Cycle(sol, ExecuteSol, Ran(Text(1, 3, 0, 0, 0))),
                ExecuteSol, Ran(Text(1, 3, 0, 0, 0))),
          Cycle(fresh, ThinkNotMapping, Raised("TypeError", SessionFiles)) }

InitParse ==
    /\ state \in ParseLedgers
    /\ pc = "parse"
    /\ decision = NoDecision
    /\ llm_response \in Responses
    /\ fs = SessionFiles
    /\ report = NoReport

\* decide_next_action: the context summary, then
\* decision = self._parse_llm_decision(llm_response, state)
ParseResponse ==
    /\ pc = "parse"
    /\ IF get_recent_actions_raises(state, 3)
       THEN /\ pc' = "raised"
            /\ report' = Failure("AttributeError")
            /\ UNCHANGED decision
       ELSE /\ decision' = parse_llm_decision(llm_response, state)
            /\ pc' = "parsed"
            /\ UNCHANGED report
    /\ UNCHANGED <<state, llm_response, fs>>

SpecParse == InitParse /\ [][ParseResponse]_vars

-----------------------------------------------------------------------------
(* The ledger under dispatches and repeated mark_satisfied calls *)

MarkReasons == {"llm reasoning", "Agent decided to stop", "High quality solution achieved"}

MarkDecisions == {WriteFile("notes.txt"), ExecuteSol, ThinkNotMapping}

InitMark ==
    /\ state \in ParseLedgers
    /\ pc = "mark"
    /\ decision = NoDecision
    /\ llm_response = <<>>
    /\ fs = SessionFiles
    /\ report = NoReport

\* _make_autonomous_decision and _execute_tool_decision on a use_tool
\* decision: the tool runs and its result is written to the ledger
DispatchTool ==
    /\ pc = "mark"
    /\ loop_condition(state)
    /\ \E d \in MarkDecisions :
          \E outcome \in tool_execute(d.tool, d.parameters, fs), console \in Consoles :
              /\ decision' = d
              /\ state' = execute_tool_decision(make_autonomous_decision(state, d), d, outcome,
                                                console)
              /\ fs' = outcome.fs
    /\ pc' = "mark"
    /\ UNCHANGED <<llm_response, report>>

\* state.mark_satisfied(reason), a first time and again
MarkSatisfied ==
    /\ pc \in {"mark", "marked", "remarked"}
    /\ \E reason \in MarkReasons :
          /\ decision' = [action |-> "stop", reasoning |-> reason]
          /\ state' = mark_satisfied(state, reason)
    /\ pc' = IF pc = "mark" THEN "marked" ELSE "remarked"
    /\ UNCHANGED <<llm_response, fs, report>>

NextMark ==
    \/ DispatchTool
    \/ MarkSatisfied

SpecMark == InitMark /\ [][NextMark]_vars

-----------------------------------------------------------------------------
(* The file capabilities on names that leave the workspace *)

\* the file and directory names of a decision: plain, through the parent
\* directory, absolute, with a lone surrogate
PathNames == {"sol.py", "../sol.py", "/tmp/sol.py", "/ws/solutions/sol.py", "a\\udc80.py"}
PathDirectories == {"solutions", ".."}

PathParameters(tool_name) ==
    IF tool_name = "write_file"
    THEN { [filename |-> f, content |-> "c"] : f \in PathNames }
         \cup { [filename |-> f, directory |-> d, content |-> "c"] :
                  f \in PathNames, d \in PathDirectories }
    ELSE { [filename |-> f] : f \in PathNames }
         \cup { [filename |-> f, directory |-> d] :
                  f \in PathNames, d \in PathDirectories }

PathDecisions ==
    UNION { { [action |-> "use_tool", tool |-> t, parameters |-> q,
               reasoning |-> "llm reasoning"] : q \in PathParameters(t) } :
            t \in {"read_file", "write_file", "execute_code"} }

\* a machine on which every file a decision can name exists already
PathFiles ==
    [path \in { file_path(d.parameters, IF d.tool = "execute_code" THEN "solutions" ELSE "") :
                  d \in PathDecisions } |-> "old"]

InitPath ==
    /\ state = AgentState(2)
    /\ pc = "path"
    /\ decision = NoDecision
    /\ llm_response = <<>>
    /\ fs \in {EmptyDict, PathFiles}
    /\ report = NoReport

\* _make_autonomous_decision and _execute_tool_decision on a decision for
\* a file capability
DispatchFileTool ==
    /\ pc = "path"
    /\ loop_condition(state)
    /\ \E d \in PathDecisions :
          \E outcome \in tool_execute(d.tool, d.parameters, fs), console \in Consoles :
              /\ decision' = d
              /\ state' = execute_tool_decision(make_autonomous_decision(state, d), d, outcome,
                                                console)
              /\ fs' = outcome.fs
    /\ pc' = "path"
    /\ UNCHANGED <<llm_response, report>>

NextPath == DispatchFileTool

SpecPath == InitPath /\ [][NextPath]_vars

-----------------------------------------------------------------------------
(* agent.py: EnhancedCodingAgent, the agent with the fixed workflow *)

MaxIterations == 2     \* largest configured max_iterations explored
MaxPasses == 4         \* passes of the solving loop after which no later pass raises

\* EnhancedCodingAgent.__init__: self.max_iterations and self.session_state
SessionState(max_iterations) ==
    [ max_iterations    |-> max_iterations,
      problem_statement |-> "",
      current_iteration |-> 0,
      attempts          |-> <<>>,
      best_solution     |-> NoSolution,
      success_achieved  |-> FALSE ]

\* self.tools[tool_name].execute(...): self.tools is a mapping any tool can
\* be put into; a tool returns what the shipped one returns, or it raises
AnyTool(tool_name, parameters, files) ==
    tool_execute(tool_name, parameters, files) \cup { Raised("RuntimeError", files) }

\* _format_iteration_result
format_iteration_result(iteration, success, status, kwargs) ==
    [iteration |-> iteration, success |-> success, status |-> status] @@ kwargs

\* _evaluate_solution
evaluate_solution(execution_result) ==
    LET analysis == Get(execution_result, "analysis", EmptyDict)
        test_results == Get(analysis, "test_results", EmptyDict)
        total_tests == Get(test_results, "total_tests", 0)
        passed_tests == Get(test_results, "passed_tests", 0)
        executed == IF execution_result.exit_code = 0 THEN 30 ELSE 0
        rate == IF total_tests > 0
                THEN IF 10 * passed_tests >= 8 * total_tests THEN 40
                     ELSE IF 2 * passed_tests >= total_tests THEN 20
                     ELSE 0
                ELSE 0
        tested == IF Get(test_results, "has_test_output", FALSE) THEN 20 + rate ELSE 0
        output == IF Get(analysis, "has_output", FALSE) THEN 10 ELSE 0
        score == executed + tested + output
    IN  [satisfactory |-> score >= 70, score |-> score]

\* _format_execution_feedback: the parts that are joined
format_execution_feedback(execution_result) ==
    LET analysis == Get(execution_result, "analysis", EmptyDict)
        test_results == Get(analysis, "test_results", EmptyDict)
    IN  (IF execution_result.exit_code # 0 THEN <<"Execution failed">> ELSE <<>>)
        \o (IF Truthy(execution_result.stderr) THEN <<"Errors">> ELSE <<>>)
        \o (IF ~Get(test_results, "has_test_output", FALSE)
            THEN <<"No test output detected">> ELSE <<>>)
        \o (IF Get(test_results, "failed_tests", 0) > 0 THEN <<"Some tests failed">> ELSE <<>>)

\* _execute_thinking_step
execute_thinking_step(s, files) ==
    LET failed == SelectSeq(s.attempts, LAMBDA attempt : ~Get(attempt, "success", FALSE))
        previous_attempts == [i \in 1..Len(failed) |-> Get(failed[i], "error", "Unknown error")]
    IN  AnyTool("think",
                [ problem_statement |-> s.problem_statement,
                  previous_attempts |-> IF previous_attempts # <<>>
                                        THEN previous_attempts ELSE <<"None">> ],
                files)

\* _execute_code_generation_step
execute_code_generation_step(s, thinking_output, files) ==
    LET last_attempt == IF s.attempts # <<>> THEN Last(s.attempts) ELSE EmptyDict
        previous_code == IF "code" \in DOMAIN last_attempt
                         THEN Get(last_attempt.code, "generated_code", "None")
                         ELSE "None"
        execution_feedback == IF "execution" \in DOMAIN last_attempt
                              THEN format_execution_feedback(last_attempt.execution)
                              ELSE <<"None">>
    IN  AnyTool("generate_code",
                [ problem_statement  |-> s.problem_statement,
                  thinking_output    |-> thinking_output.thinking_process,
                  previous_code      |-> previous_code,
                  execution_feedback |-> execution_feedback ],
                files)

\* _execute_save_step: a successful envelope is given the file's name
execute_save_step(code_result, iteration, files) ==
    LET filename == "solution_v" \o ToString(iteration) \o ".py"
    IN  { IF o.raised \/ ~o.result.success
          THEN o
          ELSE Returned(o.result @@ [filename |-> filename], o.fs) :
          o \in AnyTool("write_file",
                        [ filename  |-> filename,
                          content   |-> code_result.generated_code,
                          directory |-> "solutions" ],
                        files) }

\* _execute_execution_step
execute_execution_step(filename, files) ==
    AnyTool("execute_code", [filename |-> filename, directory |-> "solutions"], files)

\* the outcomes of a step with which _execute_iteration goes on
Succeeded_step(outcomes) == { o \in outcomes : ~o.raised /\ o.result.success }

\* one step of _execute_iteration: an exception of the step goes on, a
\* failed envelope ends the iteration with `status`, a success goes to
\* the rest of the iteration
Step(outcomes, iteration, status, rest) ==
    UNION { IF o.raised
            THEN { o }
            ELSE IF ~o.result.success
            THEN { Returned(format_iteration_result(iteration, FALSE, status,
                                                    [error |-> Get(o.result, "error", "None")]),
                            o.fs) }
            ELSE rest[o] : o \in outcomes }

\* _execute_iteration: think, generate, save, execute, evaluate
execute_iteration(s, files) ==
    LET iteration == s.current_iteration + 1
        Evaluate(thinking, code, save, execution) ==
            { Returned(format_iteration_result(
                           iteration,
                           evaluate_solution(execution.result.result).satisfactory,
                           "completed",
                           [ thinking   |-> thinking.result.result,
                             code       |-> code.result.result,
                             execution  |-> execution.result.result,
                             evaluation |-> evaluate_solution(execution.result.result),
                             filename   |-> save.result.filename ]),
                       execution.fs) }
        Execute(thinking, code, save) ==
            LET outcomes == execute_execution_step(save.result.filename, save.fs)
            IN  Step(outcomes, iteration, "execution_failed",
                     [execution \in Succeeded_step(outcomes) |->
                         Evaluate(thinking, code, save, execution)])
        Save(thinking, code) ==
            LET outcomes == execute_save_step(code.result.result, iteration, code.fs)
            IN  Step(outcomes, iteration, "save_failed",
                     [save \in Succeeded_step(outcomes) |-> Execute(thinking, code, save)])
        Generate(thinking) ==
            LET outcomes == execute_code_generation_step(s, thinking.result.result, thinking.fs)
            IN  Step(outcomes, iteration, "code_generation_failed",
                     [code \in Succeeded_step(outcomes) |-> Save(thinking, code)])
        outcomes == execute_thinking_step(s, files)
    IN  Step(outcomes, iteration, "thinking_failed",
             [thinking \in Succeeded_step(outcomes) |-> Generate(thinking)])

\* _generate_final_report
generate_final_report(s) ==
    [ problem_statement |-> s.problem_statement,
      success           |-> s.success_achieved,
      total_iterations  |-> s.current_iteration,
      max_iterations    |-> s.max_iterations,
      attempts          |-> s.attempts,
      best_solution     |-> s.best_solution ]

\* the head of solve_problem on a new agent
InitFixed ==
    /\ \E m \in 0..MaxIterations :
          state = [SessionState(m) EXCEPT !.problem_statement = "p"]
    /\ pc = "loop"
    /\ decision = NoDecision
    /\ llm_response = <<>>
    /\ fs = EmptyDict
    /\ report = NoReport

\* solve_problem, a pass of the loop in which _execute_iteration returns:
\* the attempt is recorded, the iteration counted, a success breaks
IterationReturns ==
    /\ pc = "loop"
    /\ state.current_iteration < state.max_iterations
    /\ \E o \in execute_iteration(state, fs) :
          /\ ~o.raised
          /\ LET iteration == state.current_iteration + 1
                 recorded == [state EXCEPT !.attempts = Append(@, o.result),
                                           !.current_iteration = iteration]
             IN  IF Get(o.result, "success", FALSE)
                 THEN /\ state' = [recorded EXCEPT !.success_achieved = TRUE,
                                                   !.best_solution = o.result]
                      /\ pc' = "report"
                 ELSE /\ state' = recorded
                      /\ pc' = "loop"
          /\ fs' = o.fs
    /\ UNCHANGED <<decision, llm_response, report>>

\* solve_problem, a pass of the loop in which _execute_iteration raises:
\* the except clause records an attempt
IterationRaises ==
    /\ pc = "loop"
    /\ state.current_iteration < state.max_iterations
    /\ Len(state.attempts) < MaxPasses
    /\ \E o \in execute_iteration(state, fs) :
          /\ o.raised
          /\ state' = [state EXCEPT !.attempts =
                          Append(@, [ iteration |-> state.current_iteration + 1,
                                      success   |-> FALSE,
                                      error     |-> "Iteration failed with exception" ])]
          /\ fs' = o.fs
    /\ pc' = "loop"
    /\ UNCHANGED <<decision, llm_response, report>>

\* solve_problem: the loop's test fails
LoopExit ==
    /\ pc = "loop"
    /\ ~(state.current_iteration < state.max_iterations)
    /\ pc' = "report"
    /\ UNCHANGED <<state, decision, llm_response, fs, report>>

\* solve_problem: the final report is returned
FinalReport ==
    /\ pc = "report"
    /\ report' = generate_final_report(state)
    /\ pc' = "done"
    /\ UNCHANGED <<state, decision, llm_response, fs>>

NextFixed ==
    \/ IterationReturns
    \/ IterationRaises
    \/ LoopExit
    \/ FinalReport

SpecFixed == InitFixed /\ [][NextFixed]_vars

-----------------------------------------------------------------------------
(* Claims *)

\* C1: in every state of a session remaining_calls = max_tool_calls -
\* len(tool_calls) and remaining_calls >= 0; remaining_calls never increases;
\* once it is 0 no decision is asked for and no invocation is recorded.
C1_BudgetAccounting ==
    /\ [](/\ state.remaining_calls = state.max_tool_calls - Len(state.tool_calls)
          /\ state.remaining_calls >= 0
          /\ pc = "decide" => state.remaining_calls > 0)
    /\ [][/\ state'.remaining_calls <= state.remaining_calls
          /\ state.remaining_calls = 0 => Len(state'.tool_calls) = Len(state.tool_calls)]_vars

\* a session that has spent a budget of at least two invocations
C1_Witness ==
    /\ pc = "done"
    /\ state.max_tool_calls >= 2
    /\ state.remaining_calls = 0
    /\ ~state.is_satisfied

\* C2: whatever the oracle answers and the capabilities return, solve_problem
\* reaches its end, and never records more than max_tool_calls invocations.
C2_Terminates ==
    /\ <>(pc = "done")
    /\ [](Len(state.tool_calls) <= state.max_tool_calls)

\* a session that ended on its budget with every decision from the
\* fallback tree (the oracle never said anything parseable)
C2_Witness ==
    /\ pc = "done"
    /\ state.max_tool_calls >= 2
    /\ Len(state.tool_calls) = state.max_tool_calls
    /\ \A i \in 1..Len(state.tool_calls) :
          state.tool_calls[i].reasoning = "Fallback: Starting with problem analysis"

\* C3 as stated: for every response and every ledger the adapter returns
\* without raising, and what it returns is a decision whose action is
\* use_tool or stop, a use_tool decision naming a registered tool.
C3_DecisionValid ==
    /\ pc # "raised"
    /\ pc = "parsed" =>
          /\ decision.action \in {"use_tool", "stop"}
          /\ decision.action = "use_tool" => decision.tool \in available_tools

\* C4: with a budget of 1 a use_tool decision dispatches exactly one
\* capability, leaves remaining_calls at 0 and the loop ends, satisfied or
\* not; no decision is asked of the oracle once remaining_calls is 0.
C4_BudgetExhaustion ==
    /\ [](/\ pc = "decide" => state.remaining_calls > 0
          /\ (state.max_tool_calls = 1 /\ state.tool_calls # <<>>) =>
                /\ Len(state.tool_calls) = 1
                /\ state.remaining_calls = 0
                /\ pc \in {"decided", "assess", "loop", "report", "done"})
    /\ [][(pc = "loop" /\ state.remaining_calls = 0) => pc' = "report"]_vars

\* budget 1, no artifact, one invocation dispatched, ended unsatisfied
C4_Witness ==
    /\ pc = "done"
    /\ state.max_tool_calls = 1
    /\ Len(state.tool_calls) = 1
    /\ state.tool_calls[1].result # EmptyDict
    /\ state.files_created = <<>>
    /\ state.remaining_calls = 0
    /\ ~state.is_satisfied

\* C5: over every step best_quality_score does not decrease, and
\* best_solution changes only when an outcome is appended whose score is
\* strictly greater than the best so far; an equal score replaces nothing.
C5_BestNeverRegresses ==
    [][/\ state'.best_quality_score >= state.best_quality_score
       /\ (state'.best_solution # state.best_solution
              \/ state'.best_quality_score # state.best_quality_score) =>
            /\ Len(state'.execution_results) = Len(state.execution_results) + 1
            /\ Last(state'.execution_results).quality_score > state.best_quality_score
            /\ state'.best_quality_score = Last(state'.execution_results).quality_score
            /\ state'.best_solution = Last(state'.execution_results).filename]_vars

\* two artifacts run with the same positive score: the first stays the best
C5_Witness ==
    /\ Len(state.execution_results) = 2
    /\ state.execution_results[1].quality_score = state.execution_results[2].quality_score
    /\ state.execution_results[1].quality_score > 0
    /\ state.execution_results[1].filename # state.execution_results[2].filename
    /\ state.best_solution = state.execution_results[1].filename

Scores(s) == { s.execution_results[i].quality_score : i \in DOMAIN s.execution_results }

MaxScore(s) == CHOOSE m \in Scores(s) : \A x \in Scores(s) : x <= m

\* C6 as stated: once an outcome is recorded, best_quality_score is the
\* maximum recorded score and best_solution names an outcome with that score.
C6_BestIsMaxAndNamed ==
    state.execution_results # <<>> =>
        /\ state.best_quality_score = MaxScore(state)
        /\ \E i \in DOMAIN state.execution_results :
              /\ state.execution_results[i].filename = state.best_solution
              /\ state.execution_results[i].quality_score = state.best_quality_score

\* C6: once an outcome is recorded, best_quality_score is the larger of 0 and
\* the maximum recorded score; when it is above 0 best_solution names the
\* earliest outcome with that score, and otherwise best_solution is unset.
C6_BestIsMaxAboveZero ==
    state.execution_results # <<>> =>
        /\ state.best_quality_score = Max(0, MaxScore(state))
        /\ IF state.best_quality_score > 0
           THEN \E i \in DOMAIN state.execution_results :
                  /\ state.execution_results[i].filename = state.best_solution
                  /\ state.execution_results[i].quality_score = state.best_quality_score
                  /\ \A j \in 1..(i - 1) :
                        state.execution_results[j].quality_score < state.best_quality_score
           ELSE state.best_solution = NoSolution

\* outcomes scored 40 then 65: the best is 65 and names the second artifact
C6_Witness ==
    /\ Len(state.execution_results) = 2
    /\ state.execution_results[1].quality_score = 40
    /\ state.execution_results[2].quality_score = 65
    /\ state.execution_results[1].filename # state.execution_results[2].filename
    /\ state.best_quality_score = 65
    /\ state.best_solution = state.execution_results[2].filename

NonBlank(text) == \E kind \in {"passed", "failed", "testing", "other"} : text[kind] > 0

NoText(text) == \A kind \in DOMAIN text : text[kind] = 0

\* the score of section 4 of the specification, from an outcome's own fields
StatedScore(r) ==
    (IF r.exit_code = 0 THEN 30 ELSE 0)
    + (IF NonBlank(r.stdout) THEN 10 ELSE 0)
    + (IF ~NonBlank(r.stderr) THEN 10 ELSE 0)
    + (IF r.test_results.has_test_output
       THEN 10 + (IF r.test_results.total_tests > 0
                  THEN (40 * r.test_results.passed_tests) \div r.test_results.total_tests
                  ELSE 0)
       ELSE 0)

\* C7: every outcome the execution capability produces is scored 30 for exit
\* code 0, 10 for non-blank stdout, 10 for blank stderr, and with detected
\* tests 10 + floor(40 * passed / total); the history plays no part.
C7_ScoreDefinition ==
    \A i \in DOMAIN state.execution_results :
        state.execution_results[i].quality_score = StatedScore(state.execution_results[i])

\* exit 0, output, clean stderr, 8 of 10 tests: 92, after an earlier outcome
C7_Witness ==
    /\ Len(state.execution_results) = 2
    /\ LET r == state.execution_results[2]
       IN  /\ r.exit_code = 0
           /\ NonBlank(r.stdout)
           /\ NoText(r.stderr)
           /\ r.test_results.has_test_output
           /\ r.test_results.total_tests = 10
           /\ r.test_results.passed_tests = 8
           /\ r.quality_score = 92

\* C8 as stated: the score of every recorded outcome lies in [0, 100], for
\* any envelope (total_tests 0, passed above total, negative counts).
C8_ScoreInRange ==
    \A i \in DOMAIN state.execution_results :
        /\ state.execution_results[i].quality_score >= 0
        /\ state.execution_results[i].quality_score <= 100

\* C9: an outcome with a non-zero exit code gets no 30-point base: its score
\* is the output, stderr and test points alone (capped at 100), and with
\* passed <= total it is at most 70, below every satisfaction threshold.
C9_NoBaseOnFailure ==
    \A i \in DOMAIN state.execution_results :
        LET r == state.execution_results[i]
            t == r.test_results
            points == (IF NonBlank(r.stdout) THEN 10 ELSE 0)
                      + (IF ~NonBlank(r.stderr) THEN 10 ELSE 0)
                      + (IF Get(t, "has_test_output", FALSE)
                         THEN 10 + (IF Get(t, "total_tests", 0) > 0
                                    THEN IntTrunc(40 * Get(t, "passed_tests", 0),
                                                  Get(t, "total_tests", 0))
                                    ELSE 0)
                         ELSE 0)
        IN  r.exit_code # 0 =>
              /\ r.quality_score = Min(100, points)
              /\ Get(t, "passed_tests", 0) <= Get(t, "total_tests", 0) => r.quality_score <= 70

\* a crashed run that prints, leaves stderr empty and passes all its tests
C9_Witness ==
    /\ state.execution_results # <<>>
    /\ LET r == Last(state.execution_results)
       IN  /\ r.exit_code # 0
           /\ NonBlank(r.stdout)
           /\ NoText(r.stderr)
           /\ Get(r.test_results, "has_test_output", FALSE)
           /\ Get(r.test_results, "total_tests", 0) > 0
           /\ Get(r.test_results, "passed_tests", 0) = Get(r.test_results, "total_tests", 0)
           /\ r.quality_score = 70

\* C10: a stop decision is recorded nowhere and costs nothing: the step that
\* takes it leaves tool_calls and remaining_calls alone, the next step marks
\* the session satisfied with the decision's reasoning as stop_reason, again
\* without touching the budget or the files, and goes straight to the report.
C10_StopDecision ==
    [][/\ (pc = "decide" /\ pc' = "decided" /\ decision'.action = "stop") =>
            /\ state'.tool_calls = state.tool_calls
            /\ state'.remaining_calls = state.remaining_calls
            /\ ~state'.is_satisfied
       /\ (pc = "decided" /\ decision.action = "stop") =>
            /\ pc' = "report"
            /\ state'.is_satisfied
            /\ state'.stop_reason = decision.reasoning
            /\ state'.tool_calls = state.tool_calls
            /\ state'.remaining_calls = state.remaining_calls
            /\ state'.execution_results = state.execution_results
            /\ fs' = fs]_vars

\* the oracle stops a session after one invocation, budget left over
C10_Witness ==
    /\ pc = "report"
    /\ decision.action = "stop"
    /\ state.is_satisfied
    /\ state.stop_reason = decision.reasoning
    /\ Len(state.tool_calls) = 1
    /\ state.remaining_calls > 0

\* C11: a cycle that ends with best_quality_score >= 90 and the session not
\* yet satisfied marks it satisfied with the synthesized high-quality reason,
\* and the loop then leaves for the report: no decision is asked for and no
\* tool dispatched while the best score is 90 or more, whatever budget is left.
C11_AutoTermination ==
    /\ [][(pc = "assess" /\ state.best_quality_score >= 90 /\ ~state.is_satisfied) =>
            /\ state'.is_satisfied
            /\ state'.stop_reason = "High quality solution achieved"
            /\ pc' = "loop"]_vars
    /\ [][(pc = "loop" /\ state.best_quality_score >= 90) => pc' = "report"]_vars
    /\ [](pc \in {"decide", "decided"} => state.best_quality_score < 90)

\* a run scored 92 ended the session on its own with budget left over
C11_Witness ==
    /\ pc = "done"
    /\ state.best_quality_score = 92
    /\ state.is_satisfied
    /\ state.stop_reason = "High quality solution achieved"
    /\ decision.action = "use_tool"
    /\ state.remaining_calls > 0
    /\ report.completion_status = "SUCCESS"

OracleStop == state.is_satisfied /\ decision.action = "stop"

AutoTerminated ==
    state.is_satisfied /\ state.stop_reason = "High quality solution achieved"

BudgetExhausted == state.remaining_calls = 0

\* C12 as stated: a session that has ended did so by exactly one of an oracle
\* stop, auto-termination on high quality and budget exhaustion: never none
\* of the three, never two of them together.
C12_ExactlyOneCause ==
    pc = "done" =>
        \/ OracleStop /\ ~AutoTerminated /\ ~BudgetExhausted
        \/ ~OracleStop /\ AutoTerminated /\ ~BudgetExhausted
        \/ ~OracleStop /\ ~AutoTerminated /\ BudgetExhausted

\* C13: is_satisfied, once true, stays true; a satisfied session is only ever
\* at the loop test, the report or the end (never asking for a decision,
\* holding one or assessing), the loop test sends it to the report, and from
\* the report on the ledger and the files no longer change.
C13_TerminatedIsFinal ==
    /\ [][state.is_satisfied => state'.is_satisfied]_vars
    /\ [](state.is_satisfied => pc \in {"loop", "report", "done"})
    /\ [][(pc = "loop" /\ state.is_satisfied) => pc' = "report"]_vars
    /\ [][(pc = "report" \/ pc = "done") =>
            /\ pc' \in {"report", "done"}
            /\ state' = state
            /\ fs' = fs]_vars

\* ended by an oracle stop after two invocations, with budget left over
C13_Witness ==
    /\ pc = "done"
    /\ state.is_satisfied
    /\ decision.action = "stop"
    /\ Len(state.tool_calls) = 2
    /\ state.remaining_calls > 0

\* C14: when the dispatched tool raises (its call does not bind the
\* decision's parameters), the step catches it: the invocation's record ends
\* with success false and the fault's message as its error, the issues hold
\* one for it, the session is not marked satisfied and goes on to its assessment,
\* then to the loop test, and from there to the next decision if budget remains.
C14_CapabilityFaultCaught ==
    /\ [][(/\ pc = "decided"
           /\ decision.action = "use_tool"
           /\ ~Binds(decision.tool, decision.parameters)) =>
            /\ pc' = "assess"
            /\ Len(state'.tool_calls) = Len(state.tool_calls)
            /\ ~Last(state'.tool_calls).success
            /\ Last(state'.tool_calls).result = [success |-> FALSE, error |-> "TypeError"]
            /\ \E i \in DOMAIN state'.identified_issues :
                  /\ state'.identified_issues[i].tool_name = decision.tool
                  /\ state'.identified_issues[i].error = "TypeError"
            /\ state'.is_satisfied = state.is_satisfied]_vars
    /\ [][pc = "assess" => pc' = "loop"]_vars
    /\ [][(pc = "loop" /\ state.remaining_calls > 0 /\ ~state.is_satisfied) =>
            pc' = "decide"]_vars

\* the first invocation raised, was recorded as failed, and the session is
\* asking the oracle for its next decision
C14_Witness ==
    /\ pc = "decide"
    /\ Len(state.tool_calls) = 1
    /\ ~state.tool_calls[1].success
    /\ state.tool_calls[1].result = [success |-> FALSE, error |-> "TypeError"]
    /\ Len(state.identified_issues) = 1
    /\ state.remaining_calls > 0

\* C15 as stated: a raising oracle call is caught inside the adapter and
\* answered with the fallback decision: the fault never reaches
\* solve_problem and no session ends on it.
C15_OracleFaultCaught ==
    /\ pc = "failed" => report.error # "oracle fault"
    /\ (pc = "done" /\ report.completion_status = "ERROR") => report.error # "oracle fault"

\* C16 as stated: an exception that escapes a cycle is caught by the loop,
\* which goes on with the next cycle instead of ending the session.
C16_CycleFaultContinues ==
    [][pc = "failed" => (pc' = "loop" /\ report' = NoReport)]_vars

\* C17 as stated: the report of every ended session carries a completion
\* status and a non-empty reason for stopping.
C17_ReportHasReason ==
    pc = "done" =>
        /\ report.completion_status \in {"SUCCESS", "INCOMPLETE", "ERROR"}
        /\ report.stop_reason # ""

\* C18 as stated: after an interrupt at any point of a cycle every invocation
\* record in the ledger has its outcome filled in, and a session report has
\* been produced.
C18_InterruptConsistent ==
    pc = "interrupted" =>
        /\ \A i \in DOMAIN state.tool_calls : state.tool_calls[i].result # EmptyDict
        /\ report.completion_status \in {"SUCCESS", "INCOMPLETE", "ERROR"}

\* C19 as stated: whatever parameters a decision supplies, the call of the
\* tool's execute does not raise: it returns an envelope with a success field.
C19_ExecuteNeverRaises ==
    (pc = "decided" /\ decision.action = "use_tool") =>
        \A outcome \in tool_execute(decision.tool, decision.parameters, fs) :
            /\ ~outcome.raised
            /\ "success" \in DOMAIN outcome.result

\* C20 as stated: every decision the adapter returns has a reasoning field,
\* and a use_tool decision also a tool field and parameters that are a mapping.
C20_DecisionComplete ==
    pc = "parsed" =>
        /\ "reasoning" \in DOMAIN decision
        /\ decision.action = "use_tool" =>
              /\ "tool" \in DOMAIN decision
              /\ "parameters" \in DOMAIN decision
              /\ decision.parameters # NotMapping

\* the invocation records of `tool_name` whose envelope reported success
Succeeded(tool_name) ==
    { i \in DOMAIN state.tool_calls :
        /\ state.tool_calls[i].tool_name = tool_name
        /\ state.tool_calls[i].success }

\* C21: in every state the ledger holds as many artifact records as
\* write_file invocations that reported success, and a step never changes or
\* removes an artifact record it finds.
C21_ArtifactPerSuccessfulWrite ==
    /\ [](Len(state.files_created) = Cardinality(Succeeded("write_file")))
    /\ [][/\ Len(state'.files_created) >= Len(state.files_created)
          /\ \A i \in DOMAIN state.files_created :
                state'.files_created[i] = state.files_created[i]]_vars

\* a write that failed next to writes that succeeded, the same name twice
C21_Witness ==
    /\ Len(state.tool_calls) = 3
    /\ \A i \in 1..3 : state.tool_calls[i].tool_name = "write_file"
    /\ \E i \in 1..3 : /\ ~state.tool_calls[i].success
                       /\ state.tool_calls[i].result # EmptyDict
    /\ Len(state.files_created) = 2
    /\ state.files_created[1].filename = state.files_created[2].filename

\* C22: in every state the ledger holds as many execution outcomes as
\* execute_code invocations that completed (returned a success envelope, i.e.
\* the script was found and run, whatever its exit code or a timeout).
C22_OutcomePerExecution ==
    Len(state.execution_results) = Cardinality(Succeeded("execute_code"))

\* an execute_code invocation that found no script, a write, then a run that
\* crashed: one outcome
C22_Witness ==
    /\ Len(state.tool_calls) = 3
    /\ state.tool_calls[1].tool_name = "execute_code"
    /\ state.tool_calls[1].result = [success |-> FALSE, error |-> "Script not found"]
    /\ state.tool_calls[2].tool_name = "write_file"
    /\ state.tool_calls[3].tool_name = "execute_code"
    /\ state.tool_calls[3].success
    /\ Len(state.execution_results) = 1
    /\ state.execution_results[1].exit_code # 0

IsPrefix(s, t) == Len(s) <= Len(t) /\ \A i \in DOMAIN s : t[i] = s[i]

C24_MarkSatisfiedIdempotent ==
    /\ [][(pc' = "marked" \/ pc' = "remarked") =>
            /\ state'.is_satisfied
            /\ state'.stop_reason = decision'.reasoning
            /\ state' = [state EXCEPT !.is_satisfied = TRUE,
                                      !.stop_reason = decision'.reasoning]]_vars
    /\ [][state.is_satisfied => state'.is_satisfied]_vars
    /\ [][Len(state'.tool_calls) > Len(state.tool_calls) =>
            /\ state'.is_satisfied = state.is_satisfied
            /\ state'.stop_reason = state.stop_reason]_vars

\* marked again, with a reason other than the first: the new reason stands,
\* on a ledger with invocations, an artifact and an outcome
C24_Witness ==
    /\ pc = "remarked"
    /\ state.is_satisfied
    /\ state.stop_reason = "Agent decided to stop"
    /\ decision.reasoning = "Agent decided to stop"
    /\ Len(state.tool_calls) >= 2
    /\ state.execution_results # <<>>
    /\ state.files_created # <<>>

\* the envelope of a run that hit its timeout
IsTimeout(envelope) ==
    /\ Get(envelope, "success", FALSE)
    /\ "analysis" \in DOMAIN envelope.result
    /\ envelope.result.analysis.timed_out

\* C25: a run that times out returns: the dispatch step ends with an envelope
\* of exit code -1 and a message on stderr, appends an outcome of exit code
\* -1 scored 0, leaves best_solution and best_quality_score as they were and
\* the session unsatisfied; the loop goes on to the assessment and the loop
\* test, and with budget left to the next decision.
C25_TimeoutRecorded ==
    /\ [][(pc = "decided" /\ pc' = "assess" /\ IsTimeout(Last(state'.tool_calls).result)) =>
            /\ Last(state'.tool_calls).result.result.exit_code = -1
            /\ NonBlank(Last(state'.tool_calls).result.result.stderr)
            /\ Len(state'.execution_results) = Len(state.execution_results) + 1
            /\ Last(state'.execution_results).exit_code = -1
            /\ Last(state'.execution_results).quality_score = 0
            /\ state'.best_solution = state.best_solution
            /\ state'.best_quality_score = state.best_quality_score
            /\ ~state'.is_satisfied]_vars
    /\ [][(/\ pc = "assess"
           /\ IsTimeout(Last(state.tool_calls).result)) =>
            /\ pc' = "loop"
            /\ state'.is_satisfied = (state.best_quality_score >= 90)
            /\ state'.execution_results = state.execution_results]_vars
    /\ [][(/\ pc = "loop"
           /\ state.tool_calls # <<>>
           /\ IsTimeout(Last(state.tool_calls).result)
           /\ state.remaining_calls > 0
           /\ ~state.is_satisfied) => pc' = "decide"]_vars

\* a run scored 65, then a run of another script that timed out: the best
\* is still the first, and the oracle is asked again
C25_Witness ==
    /\ pc = "decide"
    /\ Len(state.tool_calls) = 2
    /\ IsTimeout(state.tool_calls[2].result)
    /\ Len(state.execution_results) = 2
    /\ state.execution_results[1].quality_score = 65
    /\ state.execution_results[2].quality_score = 0
    /\ state.execution_results[2].filename # state.execution_results[1].filename
    /\ state.best_solution = state.execution_results[1].filename
    /\ state.best_quality_score = 65

\* the dispatch of a write_file decision whose parameters bind
WriteDispatch ==
    /\ pc = "decided"
    /\ decision.action = "use_tool"
    /\ decision.tool = "write_file"
    /\ decision.parameters # NotMapping
    /\ Binds("write_file", decision.parameters)

\* C26: a write whose overwrite parameter is false and whose target exists
\* ends with an error envelope, leaves every file's content as it was and
\* adds no artifact record; a write that reports success, which is every
\* other write the file system carries out, leaves the target holding the
\* content of the decision, whatever it held before.
C26_OverwriteGuard ==
    [][WriteDispatch =>
        LET path == file_path(decision.parameters, "")
            call == Last(state'.tool_calls)
        IN  /\ (path \in DOMAIN fs /\ ~Get(decision.parameters, "overwrite", TRUE)) =>
                  /\ ~call.success
                  /\ call.result = format_error("File already exists and overwrite=False")
                  /\ fs' = fs
                  /\ state'.files_created = state.files_created
            /\ call.success =>
                  /\ path \in DOMAIN fs'
                  /\ fs'[path] = decision.parameters.content
                  /\ \A other \in DOMAIN fs \ {path} : fs'[other] = fs[other]
            /\ (Get(decision.parameters, "overwrite", TRUE) \/ path \notin DOMAIN fs) =>
                  \/ call.success
                  \/ call.result = format_error("OS error writing file") /\ fs' = fs]_vars

\* an existing sol.py: a guarded write of it was refused, then a default
\* write replaced its content, and only that write left an artifact record
C26_Witness ==
    /\ Len(state.tool_calls) = 2
    /\ state.tool_calls[1].tool_name = "write_file"
    /\ ~Get(state.tool_calls[1].parameters, "overwrite", TRUE)
    /\ ~state.tool_calls[1].success
    /\ state.tool_calls[2].tool_name = "write_file"
    /\ "overwrite" \notin DOMAIN state.tool_calls[2].parameters
    /\ state.tool_calls[2].success
    /\ Len(state.files_created) = 1
    /\ fs = [SessionFiles EXCEPT ![file_path([filename |-> "sol.py"], "solutions")] = "c"]

\* a file under the workspace root
Inside(path) ==
    /\ Len(path) > Len(workspace_path)
    /\ SubSeq(path, 1, Len(workspace_path)) = workspace_path

\* C27: whatever filename and directory a decision names, a dispatch
\* creates or changes only files inside the workspace root, and a read, a
\* write or a run that reports success was of a file inside it.
C27_PathsInsideWorkspace ==
    [][pc = "path" =>
        LET call == Last(state'.tool_calls)
        IN  /\ \A path \in DOMAIN fs' :
                  (path \notin DOMAIN fs \/ fs'[path] # fs[path]) => Inside(path)
            /\ (call.success /\ call.tool_name \in {"read_file", "write_file"}) =>
                  Inside(call.result.result.file_path)
            /\ (call.success /\ call.tool_name = "execute_code") =>
                  Inside(file_path(call.parameters, "solutions"))]_vars

\* the sum of the counts of a usage dictionary
RECURSIVE SumOfCounts(_)
SumOfCounts(counts) ==
    IF DOMAIN counts = {}
    THEN 0
    ELSE LET t == CHOOSE x \in DOMAIN counts : TRUE
         IN  counts[t] + SumOfCounts([x \in DOMAIN counts \ {t} |-> counts[x]])

\* C28: a session report that carries a decision trail (every report but
\* the error report) has one trail entry per invocation record, in the
\* order of the ledger, with that record's tool, reasoning and success flag;
\* its usage counts add up to its total of invocations, which is the length
\* of the ledger and at most max_tool_calls.
C28_DecisionTrail ==
    (pc = "done" /\ "decision_trail" \in DOMAIN report) =>
        /\ Len(report.decision_trail) = Len(state.tool_calls)
        /\ \A i \in DOMAIN state.tool_calls :
              /\ report.decision_trail[i].tool = state.tool_calls[i].tool_name
              /\ report.decision_trail[i].reasoning = state.tool_calls[i].reasoning
              /\ report.decision_trail[i].success = state.tool_calls[i].success
        /\ SumOfCounts(report.tool_usage.tool_usage) = report.tool_usage.total_calls
        /\ report.tool_usage.total_calls = Len(state.tool_calls)
        /\ report.total_tool_calls = report.tool_usage.total_calls
        /\ report.tool_usage.total_calls <= report.max_tool_calls
        /\ report.max_tool_calls = state.max_tool_calls

\* a report of three invocations of two tools, the second of which failed
C28_Witness ==
    /\ pc = "done"
    /\ "decision_trail" \in DOMAIN report
    /\ Len(report.decision_trail) = 3
    /\ report.decision_trail[1].success
    /\ ~report.decision_trail[2].success
    /\ report.decision_trail[3].success
    /\ report.decision_trail[1].tool # report.decision_trail[2].tool
    /\ report.decision_trail[3].tool = report.decision_trail[1].tool
    /\ Cardinality(DOMAIN report.tool_usage.tool_usage) = 2

\* the response has a span from its first "{" to its last "}"
HasSpan(response) ==
    find_open(response) >= 1 /\ rfind_close(response) >= find_open(response)

\* what json.loads makes of that span
SpanParsed(response) == json_loads(response, find_open(response), rfind_close(response))

\* C29: when the span from the first "{" to the last "}" is no JSON, the
\* decision is the one the textual interpretation of the response gives
\* (stop on a stop word, else the first tool named, else the fallback).
C29_UnparsableSpanInterpreted ==
    (pc = "parsed" /\ HasSpan(llm_response) /\ SpanParsed(llm_response).raised) =>
        decision = interpret_text_response(llm_response, state)

\* the span is a JSON object that asks to stop, or to use a registered tool
AsksValid(response) ==
    /\ HasSpan(response)
    /\ ~SpanParsed(response).raised
    /\ LET value == SpanParsed(response).value
       IN  /\ "action" \in DOMAIN value
           /\ \/ value.action = "stop"
              \/ /\ value.action = "use_tool"
                 /\ "tool" \in DOMAIN value
                 /\ value.tool \in available_tools

\* C30: when the span is a JSON object with action stop, or with action
\* use_tool and a registered tool, the decision has that action and tool,
\* the object's parameters and reasoning where it has them and the defaults
\* where it has not, whatever words stand around the object.
C30_StructuredDecisionWins ==
    (pc = "parsed" /\ AsksValid(llm_response)) =>
        LET value == SpanParsed(llm_response).value
        IN  /\ decision.action = value.action
            /\ decision.reasoning =
                  Get(value, "reasoning", IF value.action = "stop"
                                          THEN "Agent decided to stop"
                                          ELSE "No reasoning provided")
            /\ value.action = "use_tool" =>
                  /\ decision.tool = value.tool
                  /\ decision.parameters = Get(value, "parameters", EmptyDict)
            /\ value.action = "stop" => DOMAIN decision = {"action", "reasoning"}

\* a stop word in front of an object that asks for write_file: write_file
\* is decided, with the default parameters and reasoning
C30_Witness ==
    /\ pc = "parsed"
    /\ llm_response = << Word("DONE"), Obj([action |-> "use_tool", tool |-> "write_file"]) >>
    /\ decision = [ action |-> "use_tool", tool |-> "write_file", parameters |-> EmptyDict,
                    reasoning |-> "No reasoning provided" ]

\* the response is handed to the textual interpretation: it has no span,
\* or its span is a JSON value that validation rejects
Interpreted(response) ==
    \/ ~HasSpan(response)
    \/ /\ ~SpanParsed(response).raised
       /\ ~validate_decision(SpanParsed(response).value).raised
       /\ ~validate_decision(SpanParsed(response).value).valid

\* the registered tools whose name occurs in the lowercased response, by
\* their place in the registry
NamedTools(response) == {i \in 1..Len(ToolOrder) : InLower(response, ToolOrder[i])}

\* C31: the textual interpretation decides stop when a stop word occurs in
\* the lowercased response; when none occurs and a registered tool is
\* named, it decides that tool (the first of the registry that is named)
\* with empty parameters; otherwise it decides what the fallback tree
\* decides. So a stop word wins over a tool's name.
C31_TextInterpretation ==
    (pc = "parsed" /\ Interpreted(llm_response)) =>
        IF \E word \in {"stop", "satisfied", "complete", "finished", "done"} :
              InLower(llm_response, word)
        THEN decision = [action |-> "stop", reasoning |-> "Interpreted from response"]
        ELSE IF NamedTools(llm_response) # {}
        THEN /\ decision.action = "use_tool"
             /\ \E i \in NamedTools(llm_response) :
                   /\ decision.tool = ToolOrder[i]
                   /\ \A j \in NamedTools(llm_response) : i <= j
             /\ decision.parameters = EmptyDict
             /\ decision.reasoning = "Interpreted tool from response"
        ELSE decision = get_fallback_decision(state)

\* a response that names read_file and then says DONE: stop is decided
C31_Witness ==
    /\ pc = "parsed"
    /\ llm_response = <<Word("read_file"), Word("DONE")>>
    /\ decision.action = "stop"
    /\ decision.reasoning = "Interpreted from response"

\* the response leaves the decision to the fallback tree: parsing or
\* validation raised, or the textual interpretation found no stop word and
\* no tool's name
FallsBack(response) ==
    \/ HasSpan(response) /\ SpanParsed(response).raised
    \/ /\ HasSpan(response)
       /\ ~SpanParsed(response).raised
       /\ validate_decision(SpanParsed(response).value).raised
    \/ /\ Interpreted(response)
       /\ ~\E word \in {"stop", "satisfied", "complete", "finished", "done"} :
             InLower(response, word)
       /\ NamedTools(response) = {}

\* the rules of the fallback tree, as properties of a decision
RuleThink(d) ==
    d.action = "use_tool" /\ d.tool = "think" /\ d.parameters.focus = "problem analysis"
RuleRun(d, s) ==
    /\ d.action = "use_tool"
    /\ d.tool = "execute_code"
    /\ d.parameters.filename = Last(s.files_created).filename
RuleImprove(d) ==
    d.action = "use_tool" /\ d.tool = "think" /\ d.parameters.focus = "solution improvement"
RuleStop(d) == d.action = "stop"
RuleGenerate(d) == d.action = "use_tool" /\ d.tool = "generate_code"

\* the rest of the tree, from rule (c) on
RulesFromImprove(d, s) ==
    IF s.best_quality_score < 70
    THEN RuleImprove(d)
    ELSE IF s.remaining_calls <= 1 \/ s.best_quality_score >= 80
    THEN RuleStop(d)
    ELSE /\ RuleGenerate(d)
         /\ 70 <= s.best_quality_score
         /\ s.best_quality_score < 80
         /\ s.remaining_calls > 1

\* the name of a Python script
IsPython(filename) == filename = "sol.py"

\* C32 as stated: the fallback decision is the first matching rule of
\* (a) no artifact: think; (b) artifacts and no execution: run the latest
\* artifact; (c) best score < 70: think about improvement; (d) remaining
\* budget <= 1 or best score >= 80: stop; (e) otherwise generate, which
\* is reached only with 70 <= best < 80 and remaining budget > 1.
C32_FallbackTreeAsStated ==
    (pc = "parsed" /\ FallsBack(llm_response)) =>
        IF state.files_created = <<>>
        THEN RuleThink(decision)
        ELSE IF state.execution_results = <<>>
        THEN RuleRun(decision, state)
        ELSE RulesFromImprove(decision, state)

\* C32, amended: rule (b) applies only when the latest artifact's name ends
\* in ".py"; with artifacts, no execution and a latest artifact of another
\* name the tree goes on to rule (c). The other rules are as stated.
C32_FallbackTree ==
    (pc = "parsed" /\ FallsBack(llm_response)) =>
        IF state.files_created = <<>>
        THEN RuleThink(decision)
        ELSE IF /\ state.execution_results = <<>>
                /\ IsPython(Last(state.files_created).filename)
        THEN RuleRun(decision, state)
        ELSE RulesFromImprove(decision, state)

\* notes.txt is the only artifact and nothing has run: the fallback is to
\* think about improvement, not to run notes.txt
C32_Witness ==
    /\ pc = "parsed"
    /\ llm_response = <<Word("hello")>>
    /\ Len(state.files_created) = 1
    /\ Last(state.files_created).filename = "notes.txt"
    /\ state.execution_results = <<>>
    /\ RuleImprove(decision)

\* integers an updater may be given, on both sides of 0 and of 100
Levels == {-150, -1, 0, 1, 37, 99, 100, 101, 250}

\* level, brought into 0..100
Clamped(level) == IF level < 0 THEN 0 ELSE IF level > 100 THEN 100 ELSE level

\* C33: the reassessment that ends a cycle stores satisfaction = 20 if
\* there is an artifact + 20 if there is an execution + min(50, best score
\* div 2) and confidence = 20 if there is an invocation + 50 if the best
\* score is at least 70 + 30 if no issue is identified; both stored levels
\* are within 0..100 in every state; and update_satisfaction and
\* update_confidence store any integer they are given brought into 0..100,
\* changing nothing else.
C33_Assessment ==
    /\ [][pc = "assess" =>
            /\ state'.satisfaction_level =
                  (IF state'.files_created # <<>> THEN 20 ELSE 0)
                  + (IF state'.execution_results # <<>> THEN 20 ELSE 0)
                  + Min(50, state'.best_quality_score \div 2)
            /\ state'.confidence_level =
                  (IF state'.tool_calls # <<>> THEN 20 ELSE 0)
                  + (IF state'.best_quality_score >= 70 THEN 50 ELSE 0)
                  + (IF state'.identified_issues = <<>> THEN 30 ELSE 0)]_vars
    /\ [](/\ state.satisfaction_level \in 0..100
          /\ state.confidence_level \in 0..100)
    /\ [](\A level \in Levels :
            /\ update_satisfaction(state, level) =
                  [state EXCEPT !.satisfaction_level = Clamped(level)]
            /\ update_confidence(state, level) =
                  [state EXCEPT !.confidence_level = Clamped(level)])

\* after a write, a run scored 65 and a failed invocation: satisfaction
\* 20 + 20 + 32 and confidence 20
C33_Witness ==
    /\ pc = "loop"
    /\ state.files_created # <<>>
    /\ state.best_quality_score = 65
    /\ state.identified_issues # <<>>
    /\ state.satisfaction_level = 72
    /\ state.confidence_level = 20

\* what the ledger is to hold for an outcome of a capability: the envelope
\* it returned, or the failure made of the fault it raised
Envelope(outcome) ==
    IF outcome.raised THEN format_error(outcome.error) ELSE outcome.result

\* C34: a dispatch leaves the earlier invocation records as they were and
\* fills in the record of its own invocation once, with what the capability
\* gave: the record's result is the envelope the capability returned (or
\* the failure of the fault it raised) and its success flag is that
\* envelope's, so a success the capability reported is not recorded as a
\* failure.
C34_RecordFilledOnce ==
    [][pc = "path" =>
        /\ \A i \in DOMAIN state.tool_calls : state'.tool_calls[i] = state.tool_calls[i]
        /\ \E outcome \in tool_execute(decision'.tool, decision'.parameters, fs) :
              /\ outcome.fs = fs'
              /\ Last(state'.tool_calls).result = Envelope(outcome)
              /\ Last(state'.tool_calls).success = Get(Envelope(outcome), "success", FALSE)]_vars

\* the rationales of the decisions of the fallback tree
FallbackReasons ==
    { "Fallback: Starting with problem analysis",
      "Fallback: Testing the generated solution",
      "Fallback: Analyzing ways to improve solution quality",
      "Fallback: Stopping due to call limit",
      "Fallback: Stopping due to good quality achieved",
      "Fallback: Generating improved solution" }

\* every decision of the session so far came from the fallback tree
OnlyFallbackDecisions ==
    /\ \A i \in DOMAIN state.tool_calls : state.tool_calls[i].reasoning \in FallbackReasons
    /\ decision # NoDecision => decision.reasoning \in FallbackReasons

\* C35: in a session whose decisions all come from the fallback tree,
\* every invocation is of think, there is never an artifact record or an
\* execution outcome and the session is never satisfied; when such a
\* session has ended with a session report, it holds exactly
\* max_tool_calls invocations, its budget is spent and the report says
\* INCOMPLETE.
C35_FallbackOnlySession ==
    OnlyFallbackDecisions =>
        /\ \A i \in DOMAIN state.tool_calls : state.tool_calls[i].tool_name = "think"
        /\ state.files_created = <<>>
        /\ state.execution_results = <<>>
        /\ ~state.is_satisfied
        /\ (pc = "done" /\ report.completion_status # "ERROR") =>
              /\ Len(state.tool_calls) = state.max_tool_calls
              /\ state.remaining_calls = 0
              /\ report.completion_status = "INCOMPLETE"
              /\ ~report.is_satisfied

\* a session of three fallback decisions that has ended
C35_Witness ==
    /\ pc = "done"
    /\ OnlyFallbackDecisions
    /\ state.max_tool_calls = 3
    /\ Len(state.tool_calls) = 3
    /\ \A i \in 1..3 : state.tool_calls[i].tool_name = "think"
    /\ report.completion_status = "INCOMPLETE"

\* an invocation of the session has failed: its record was filled in with
\* success false
SomeInvocationFailed ==
    \E i \in DOMAIN state.tool_calls :
        /\ state.tool_calls[i].result # EmptyDict
        /\ ~state.tool_calls[i].success

\* C36: satisfaction_level is at most 90 in every state; an invocation that
\* failed has left an issue, and issues are never removed or changed; a
\* reassessment made when an invocation has failed stores a confidence of
\* at most 70, so from the reassessment that follows the first failure on
\* confidence_level is at most 70.
C36_LevelCaps ==
    /\ [](state.satisfaction_level <= 90)
    /\ [](SomeInvocationFailed => state.identified_issues # <<>>)
    /\ [][IsPrefix(state.identified_issues, state'.identified_issues)]_vars
    /\ [][(pc = "assess" /\ SomeInvocationFailed) => state'.confidence_level <= 70]_vars
    /\ []((SomeInvocationFailed /\ pc # "assess") => state.confidence_level <= 70)

\* a failed invocation, then a write and a run scored 100: satisfaction
\* 90, confidence 70
C36_Witness ==
    /\ pc = "loop"
    /\ SomeInvocationFailed
    /\ state.best_quality_score = 100
    /\ state.satisfaction_level = 90
    /\ state.confidence_level = 70


\* C37: a session of the fixed-workflow agent makes at most max_iterations
\* passes of its loop, whatever its tools do (returning or raising), with
\* one attempt appended per pass: it never holds more attempts than
\* max_iterations, and its report says total_iterations <= max_iterations.
C37_AtMostMaxIterations ==
    /\ Len(state.attempts) <= state.max_iterations
    /\ report # NoReport => report.total_iterations <= report.max_iterations

====
